---- MODULE Spec2Model ----
(***************************************************************************)
(* Key handling of hactool_processor.keys.cpp: the in-place key-value      *)
(* parser (ProcessKeyValueFile, ProcessKeyValue), the title-key loader     *)
(* (LoadTitleKey), the key-name dispatch (LoadExternalKey) and the key     *)
(* derivation engine (DeriveKeys).                                         *)
(*                                                                         *)
(* Characters are their ASCII codes.  A C index i into the file buffer is  *)
(* position i + 1 of the sequence mem.  mem holds the file_size bytes of   *)
(* the buffer followed by the bytes that happen to lie behind it in the    *)
(* heap: the buffer LoadKeyValueFile allocates has exactly file_size bytes *)
(* and no terminator, so an access at an index >= file_size is an access   *)
(* to those bytes, whose contents the program does not control.            *)
(***************************************************************************)
EXTENDS Integers, Sequences, FiniteSets, TLC

VARIABLES
    file,       \* the bytes read from the key file (never changed)
    mem,        \* the buffer (file_size bytes) followed by the heap bytes behind it
    file_size,  \* the size handed to ProcessKeyValueFile
    ofs,        \* ProcessKeyValueFile's scan offset
    pc,         \* "idle" | "loop" | "done" (loop ended) | "aborted" (early return)
    sink,       \* which callback the file is parsed with: "record" | "title"
    calls,      \* the (key, value) pairs handed to the callback f, in order
    log,        \* the warnings written to stderr, in order
    oob,        \* the buffer indices >= file_size that were written
    km,         \* the <<rights_id, access_key>> pairs handed to km.Register, in order
    ks,         \* g_keyset, the Key Registry
    ks_in,      \* the registry as key-file loading left it (before the first DeriveKeys)
    ks_pre,     \* the registry before the latest DeriveKeys
    npairs,     \* pairs of the key file applied so far
    nderive,    \* runs of DeriveKeys so far
    stage,      \* PresetInternalKeys' position; "none" when a function runs on its own
    spl,        \* the master keys handed to spl::smc::PresetInternalKey, by generation
    hx,         \* a call of DecodeHex: its arguments, the memory src points into, dst
    xci         \* a call of ProcessAsXci: the storage, the sub-storages, its position

parserVars == <<file, mem, file_size, ofs, pc, sink, calls, log, oob, km>>

keyVars == <<ks, ks_in, ks_pre, npairs, nderive>>

vars == <<file, mem, file_size, ofs, pc, sink, calls, log, oob, km,
          ks, ks_in, ks_pre, npairs, nderive, stage, spl, hx, xci>>

----------------------------------------------------------------------------
(* Character literals of the source. *)
NUL == 0
TAB == 9
LF == 10
CR == 13
SP == 32
COMMA == 44
EQ == 61
USCORE == 95
Ch0 == 48
Ch9 == 57
ChA == 65
ChF == 70
ChZ == 90
Cha == 97
Chf == 102
Chz == 122

(* Further characters, used to write the input files. *)
BANG == SP + 1
Ch1 == Ch0 + 1
Ch2 == Ch0 + 2
Ch3 == Ch0 + 3
ChB == ChA + 1
ChE == ChA + 4
ChK == ChA + 10
ChY == ChA + 24
Chb == Cha + 1
Che == Cha + 4
Chg == Chf + 1
Chk == Cha + 10
Chy == Cha + 24

----------------------------------------------------------------------------
(* Memory access: buf[i] for a C index i. A read behind the modelled heap   *)
(* bytes finds a NUL.                                                       *)
Rd(m, i) == IF i + 1 \in DOMAIN m THEN m[i + 1] ELSE NUL

Wr(m, i, c) == IF i + 1 \in DOMAIN m THEN [m EXCEPT ![i + 1] = c] ELSE m

IsDigit(c) == Ch0 <= c /\ c <= Ch9
IsLower(c) == Cha <= c /\ c <= Chz
IsUpper(c) == ChA <= c /\ c <= ChZ

IsHexChar(c) ==
    IsDigit(c) \/ (Cha <= c /\ c <= Chf) \/ (ChA <= c /\ c <= ChF)

(* buf[kend] = 'a' + (buf[kend] - 'A') *)
ToLowerKeep(c) == c

ToLower(c) == Cha + (c - ChA)

(* The C string that starts at index i: the bytes up to the first NUL. *)
RECURSIVE CStr(_, _)
CStr(m, i) ==
    IF Rd(m, i) = NUL THEN <<>> ELSE <<Rd(m, i)>> \o CStr(m, i + 1)

----------------------------------------------------------------------------
(* ProcessKeyValueFile: the key scan, lines 375-395. Folds upper case in    *)
(* place; stops at a delimiter, at a NUL, at a character that is no key     *)
(* character (after writing a NUL behind it) or at file_size.               *)
RECURSIVE KeyScan(_, _, _)
KeyScan(m, kend, n) ==
    IF kend >= n THEN [mem |-> m, kend |-> kend, st |-> "eof", w |-> {}]
    ELSE LET c == Rd(m, kend) IN
         IF c \in {SP, COMMA, TAB, EQ}
         THEN [mem |-> m, kend |-> kend, st |-> "delim", w |-> {}]
         ELSE IF c = NUL
         THEN [mem |-> m, kend |-> kend, st |-> "nul", w |-> {}]
         ELSE IF IsUpper(c)
         THEN KeyScan(Wr(m, kend, ToLower(c)), kend + 1, n)
         ELSE IF c # USCORE /\ ~IsDigit(c) /\ ~IsLower(c)
         THEN [mem |-> Wr(m, kend + 1, NUL), kend |-> kend, st |-> "badchar",
               w |-> {kend + 1}]
         ELSE KeyScan(m, kend + 1, n)

(* while (ofs < file_size && (buf[ofs] == ' ' || buf[ofs] == '\t')) ++ofs;  *)
RECURSIVE SkipSpacesOnly(_, _, _)
SkipSpacesOnly(m, o, n) ==
    IF o < n /\ Rd(m, o) = SP THEN SkipSpacesOnly(m, o + 1, n) ELSE o

RECURSIVE SkipBlanks(_, _, _)
SkipBlanks(m, o, n) ==
    IF o < n /\ Rd(m, o) \in {SP, TAB} THEN SkipBlanks(m, o + 1, n) ELSE o

(* The value scan, lines 438-443: the first index in [o, file_size) that    *)
(* holds a newline, a carriage return, a space or a tab, else file_size.    *)
RECURSIVE ValueEnd(_, _, _)
ValueEnd(m, vend, n) ==
    IF vend < n /\ Rd(m, vend) \notin {LF, CR, SP, TAB}
    THEN ValueEnd(m, vend + 1, n)
    ELSE vend

(* What one pass of the while loop does from offset o (o < file_size):      *)
(* res names the path taken, mem and ofs are the buffer and the offset it   *)
(* leaves, w the indices it wrote, key and value the pointers it hands to   *)
(* ProcessKeyValue.                                                         *)
Outcome(res, m, o, w, key, value) ==
    [res |-> res, mem |-> m, ofs |-> o, w |-> w, key |-> key, value |-> value]

ValuePart(m, key, o1, w, n) ==
    LET o3   == SkipBlanks(m, o1, n)
        vend == ValueEnd(m, o3, n)
    IN  IF o3 = n THEN Outcome("missing_value", m, o3, w, key, o3)
        ELSE IF vend < n
        THEN Outcome("pair", Wr(m, vend, NUL), vend, w \cup {vend}, key, o3)
        ELSE Outcome("pair", m, vend, w, key, o3)

KeyCheck(m, key, o1, w, n) ==
    IF Rd(m, key) = NUL THEN Outcome("empty_key", m, o1, w, key, o1)
    ELSE ValuePart(m, key, o1, w, n)

DelimiterPart(m, key, kend, n) ==
    LET m1 == Wr(m, kend, NUL)
        o2 == SkipBlanks(m1, kend + 1, n)
    IN  IF Rd(m, kend) \in {EQ, COMMA}
        THEN KeyCheck(m1, key, kend + 1, {kend}, n)
        ELSE IF o2 = n \/ Rd(m1, o2) \notin {EQ, COMMA}
        THEN Outcome("bad_delim", m1, o2, {kend}, key, o2)
        ELSE KeyCheck(Wr(m1, o2, NUL), key, o2 + 1, {kend, o2}, n)

Iteration(m, o, n) ==
    IF Rd(m, o) \in {LF, CR, NUL, SP, TAB}
    THEN Outcome("skip", m, o + 1, {}, o, o)
    ELSE LET sc == KeyScan(m, o, n) IN
         IF sc.st \in {"nul", "badchar"}
         THEN Outcome("bad_key", sc.mem, o, sc.w, o, o)
         ELSE IF sc.kend = n
         THEN Outcome("truncated", Wr(sc.mem, sc.kend, NUL), o, {sc.kend}, o, o)
         ELSE DelimiterPart(sc.mem, o, sc.kend, n)

(* ProcessKeyValue, lines 345-357: the value check before f(key, value). *)
ValueCheck(value) ==
    IF Len(value) % 2 # 0 THEN "odd_value"
    ELSE IF \E i \in 1..Len(value) : ~IsHexChar(value[i]) THEN "nonhex_value"
    ELSE "ok"

----------------------------------------------------------------------------
(* DecodeHex, lines 191-212. src is a pointer into mem: the loop reads      *)
(* 2 * size characters from it whatever strlen(src) is.                     *)
(* The character of the hex digit d. *)
HexDigit(d, upper) ==
    IF d < 10 THEN Ch0 + d
    ELSE (IF upper THEN ChA ELSE Cha) + (d - 10)

HexToILowerOnly(c) ==
    IF Cha <= c /\ c <= Chf THEN 10 + (c - Cha)
    ELSE IF Ch0 <= c /\ c <= Ch9 THEN c - Ch0
    ELSE 0

HexToI(c) ==
    IF Cha <= c /\ c <= Chf THEN 10 + (c - Cha)
    ELSE IF ChA <= c /\ c <= ChF THEN 10 + (c - ChA)
    ELSE IF Ch0 <= c /\ c <= Ch9 THEN c - Ch0
    ELSE 0

DecodeHex(m, src, size) ==
    [i \in 1..size |->
        (HexToI(Rd(m, src + 2 * (i - 1))) * 16 + HexToI(Rd(m, src + 2 * (i - 1) + 1))) % 256]

DecodeHexWarns(m, src, size) == Len(CStr(m, src)) # 2 * size

(* One call DecodeHex(dst, src, size): m is the memory src points into (the *)
(* string, its terminator and the bytes behind it), dst0 what dst held      *)
(* before the call.                                                         *)
HexIdle ==
    [pc |-> "idle", m |-> <<>>, src |-> 0, size |-> 0, dst0 |-> <<>>, dst |-> <<>>,
     warn |-> FALSE]

HexCallDone ==
    [hx EXCEPT !.pc = "done",
               !.dst = DecodeHex(hx.m, hx.src, hx.size),
               !.warn = DecodeHexWarns(hx.m, hx.src, hx.size)]

(* strlen(src) = 2 * size: lines 192-193 print nothing. *)
DecodeExact ==
    /\ hx.pc = "ready"
    /\ ~DecodeHexWarns(hx.m, hx.src, hx.size)
    /\ hx' = HexCallDone
    /\ UNCHANGED <<file, mem, file_size, ofs, pc, sink, calls, log, oob, km>>
    /\ UNCHANGED <<ks, ks_in, ks_pre, npairs, nderive, stage, spl, xci>>

(* strlen(src) # 2 * size: the warning of line 194, then the same loop. *)
DecodeWarned ==
    /\ hx.pc = "ready"
    /\ DecodeHexWarns(hx.m, hx.src, hx.size)
    /\ hx' = HexCallDone
    /\ UNCHANGED <<file, mem, file_size, ofs, pc, sink, calls, log, oob, km>>
    /\ UNCHANGED <<ks, ks_in, ks_pre, npairs, nderive, stage, spl, xci>>

NextHex == DecodeExact \/ DecodeWarned

----------------------------------------------------------------------------
(* hactool_processor.xci.cpp: DetermineXciSubStorages (lines 33-54) and the *)
(* part of Processor::ProcessAsXci that uses its results (lines 101-121).   *)
(*                                                                          *)
(* A storage is known by its size, by whether GetSize and the Read of the   *)
(* card header succeed (both are calls into the storage, which may fail),   *)
(* and by the magic field of the header that Read delivers.                 *)
CardInitialDataRegionSize == 4096

(* sizeof(gc::impl::CardHeaderWithSignature), the length of the Read of     *)
(* line 41.                                                                 *)
CardHeaderWithSignatureSize == 512

(* gc::impl::CardHeader::Magic and a magic field holding anything else. *)
CardHeaderMagic == "HEAD"

OtherMagic == "other"

(* A null std::shared_ptr<fs::IStorage>. *)
Null == [null |-> TRUE]

(* std::make_shared<fs::SubStorage>(storage, offset, size) *)
SubStorage(offset, size) == [offset |-> offset, size |-> size]

(* The bytes of the storage a sub-storage gives access to. *)
Bytes(sub) ==
    IF sub = Null THEN {} ELSE sub.offset .. (sub.offset + sub.size - 1)

(* Line 45: the body behind the initial data region. *)
BodyWithKeyAreaWhole(storage_size) == SubStorage(0, storage_size)

BodyWithKeyArea(storage_size) ==
    SubStorage(CardInitialDataRegionSize, storage_size - CardInitialDataRegionSize)

(* Lines 33-54. st is the storage, out the values *out_key_area and         *)
(* *out_body hold at the call; a failing R_TRY returns before they are      *)
(* written.                                                                 *)
DetermineXciSubStorages(st, out) ==
    IF ~st.size_ok
    THEN [result |-> "failure", key_area |-> out.key_area, body |-> out.body]
    ELSE IF st.size >= CardInitialDataRegionSize /\ ~st.read_ok
    THEN [result |-> "failure", key_area |-> out.key_area, body |-> out.body]
    ELSE IF st.size >= CardInitialDataRegionSize /\ st.magic = CardHeaderMagic
    THEN [result   |-> "success",
          key_area |-> SubStorage(0, CardInitialDataRegionSize),
          body     |-> BodyWithKeyArea(st.size)]
    ELSE [result   |-> "success",
          key_area |-> Null,
          body     |-> SubStorage(0, st.size)]

XciIdle ==
    [pc |-> "idle", storage |-> Null, result |-> "none", key_area |-> Null, body |-> Null]

(* Lines 101-111: the context takes the storage, DetermineXciSubStorages    *)
(* fills in the two sub-storages; on failure R_TRY returns its result.      *)
DecideOnStorages ==
    /\ xci.pc = "call"
    /\ \A d \in {DetermineXciSubStorages(xci.storage, xci)} :
           xci' = [xci EXCEPT !.result = d.result,
                              !.key_area = d.key_area,
                              !.body = d.body,
                              !.pc = IF d.result = "success" THEN "decided" ELSE "returned"]
    /\ UNCHANGED <<parserVars, keyVars, stage, spl, hx>>

(* Lines 114-116, a key area: the initial data is read from its offset 0;   *)
(* R_ABORT_UNLESS ends the program when the Read fails.                     *)
ReadInitialData ==
    /\ xci.pc = "decided"
    /\ xci.key_area # Null
    /\ \E ok \in BOOLEAN : xci' = [xci EXCEPT !.pc = IF ok THEN "initial" ELSE "aborted"]
    /\ UNCHANGED <<parserVars, keyVars, stage, spl, hx>>

(* Line 114, no key area. *)
NoInitialData ==
    /\ xci.pc = "decided"
    /\ xci.key_area = Null
    /\ xci' = [xci EXCEPT !.pc = "initial"]
    /\ UNCHANGED <<parserVars, keyVars, stage, spl, hx>>

(* Lines 119-121: the body header is read from offset 0 of the body. *)
ReadBodyHeader ==
    /\ xci.pc = "initial"
    /\ \E ok \in BOOLEAN : xci' = [xci EXCEPT !.pc = IF ok THEN "header" ELSE "aborted"]
    /\ UNCHANGED <<parserVars, keyVars, stage, spl, hx>>

NextXci == DecideOnStorages \/ ReadInitialData \/ NoInitialData \/ ReadBodyHeader

(* sizeof(rights_id.data), sizeof(access_key): 16 bytes each. *)
RightsIdSize == 16
AccessKeySize == 16
RightsIdChars == 32
AccessKeyChars == 32

(* LoadTitleKey, lines 214-249: the Register call it makes (none or one)    *)
(* and the warnings it prints.                                              *)
LoadTitleKeyAnyEvenLength(m, key, value) ==
    LET k == CStr(m, key)
        v == CStr(m, value)
    IN  IF Len(k) % 2 # 0 THEN [reg |-> <<>>, warn |-> <<"rights_id_odd">>]
        ELSE IF \E i \in 1..Len(k) : ~IsHexChar(k[i])
        THEN [reg |-> <<>>, warn |-> <<"rights_id_nonhex">>]
        ELSE [reg  |-> << <<DecodeHex(m, key, RightsIdSize), DecodeHex(m, value, AccessKeySize)>> >>,
              warn |-> <<>>]

LoadTitleKey(m, key, value) ==
    LET k == CStr(m, key)
        v == CStr(m, value)
    IN  IF Len(k) % 2 # 0 THEN [reg |-> <<>>, warn |-> <<"rights_id_odd">>]
        ELSE IF Len(k) # RightsIdChars THEN [reg |-> <<>>, warn |-> <<"rights_id_length">>]
        ELSE IF \E i \in 1..Len(k) : ~IsHexChar(k[i])
        THEN [reg |-> <<>>, warn |-> <<"rights_id_nonhex">>]
        ELSE [reg  |-> << <<DecodeHex(m, key, RightsIdSize), DecodeHex(m, value, AccessKeySize)>> >>,
              warn |-> (IF Len(v) # AccessKeyChars THEN <<"title_value_length">> ELSE <<>>)
                       \o (IF DecodeHexWarns(m, value, AccessKeySize)
                           THEN <<"decode_length">> ELSE <<>>)]

----------------------------------------------------------------------------
(* The Key Registry (struct KeySet, lines 27-77) and DeriveKeys.            *)
(*                                                                          *)
(* A 16-byte slot is a value of Block, 0 standing for the all-zero array.   *)
(* The generations are scaled down: KeyGeneration_6_2_0 and                 *)
(* KeyGeneration_Max keep their order but not their values.                 *)
KeyGeneration_1_0_0 == 0
KeyGeneration_6_2_0 == 2
KeyGeneration_Max == 3

Gens == KeyGeneration_1_0_0 .. (KeyGeneration_Max - 1)

Block == 0..4

(* IsZero, lines 81-91. *)
IsZero(v) == v = 0

(* AesDecryptor128(key).DecryptBlock(dst, src), lines 104-113: for each key *)
(* a permutation of the blocks; the permutations of two keys do not         *)
(* commute, and a decryption may yield the all-zero block.                  *)
Decrypt(key, src) == (((key % 4) + 1) * src + (key * key)) % 5

(* A decrypted keyblob, 0x90 bytes: the span at 0x00 (the master kek), the  *)
(* span at 0x80 (the package1 key); DeriveKeys reads no other byte of it.   *)
ZeroKeyblob == [mkek |-> 0, pk1 |-> 0]

(* u8 mariko_aes_class_keys[0xC][AesKeySize] *)
MarikoAesClassKeys == 12

ZeroKeySet ==
    [secure_boot_key           |-> 0,
     tsec_key                  |-> 0,
     device_key                |-> 0,
     keyblob_keys              |-> [g \in Gens |-> 0],
     keyblob_mac_keys          |-> [g \in Gens |-> 0],
     encrypted_keyblobs        |-> [g \in Gens |-> 0],
     mariko_aes_class_keys     |-> [i \in 0..(MarikoAesClassKeys - 1) |-> 0],
     mariko_kek                |-> 0,
     mariko_bek                |-> 0,
     keyblobs                  |-> [g \in Gens |-> ZeroKeyblob],
     keyblob_key_sources       |-> [g \in Gens |-> 0],
     keyblob_mac_key_source    |-> 0,
     tsec_root_kek             |-> 0,
     package1_mac_kek          |-> 0,
     package1_kek              |-> 0,
     tsec_auth_signatures      |-> [g \in Gens |-> 0],
     tsec_root_keys            |-> [g \in Gens |-> 0],
     master_kek_sources        |-> [g \in Gens |-> 0],
     mariko_master_kek_sources |-> [g \in Gens |-> 0],
     master_keks               |-> [g \in Gens |-> 0],
     master_key_source         |-> 0,
     master_keys               |-> [g \in Gens |-> 0],
     package1_mac_keys         |-> [g \in Gens |-> 0],
     package1_keys             |-> [g \in Gens |-> 0],
     package2_keys             |-> [g \in Gens |-> 0],
     package2_key_source       |-> 0,
     per_console_key_source    |-> 0,
     aes_kek_generation_source |-> 0,
     aes_key_generation_source |-> 0,
     key_area_key_application_source |-> 0,
     key_area_key_ocean_source |-> 0,
     key_area_key_system_source |-> 0,
     titlekek_source           |-> 0,
     header_kek_source         |-> 0,
     sd_card_kek_source        |-> 0,
     sd_card_nca_key_source    |-> 0,
     sd_card_save_key_source   |-> 0,
     save_mac_kek_source       |-> 0,
     save_mac_key_source       |-> 0,
     header_key_source         |-> 0,
     header_key                |-> 0,
     titlekeks                 |-> [g \in Gens |-> 0],
     key_area_keys             |-> [g \in Gens |-> [p \in 0..2 |-> 0]],
     xci_header_key            |-> 0]

(* Lines 129-130: the tsec pass first, then the secure boot key. *)
KeyblobKeySbkFirst(k, gen) ==
    Decrypt(k.tsec_key, Decrypt(k.secure_boot_key, k.keyblob_key_sources[gen]))

KeyblobKey(k, gen) ==
    Decrypt(k.secure_boot_key, Decrypt(k.tsec_key, k.keyblob_key_sources[gen]))

(* One pass of the loop of lines 124-139. *)
KeyblobKeyPass(k, gen) ==
    IF \/ IsZero(k.secure_boot_key)
       \/ IsZero(k.tsec_key)
       \/ IsZero(k.keyblob_key_sources[gen])
    THEN k
    ELSE LET k1 == [k EXCEPT !.keyblob_keys[gen] = KeyblobKey(k, gen)]
             k2 == [k1 EXCEPT !.keyblob_mac_keys[gen] =
                        Decrypt(k1.keyblob_keys[gen], k1.keyblob_mac_key_source)]
         IN  IF IsZero(k1.keyblob_mac_key_source) THEN k1
             ELSE IF gen = KeyGeneration_1_0_0 /\ ~IsZero(k2.per_console_key_source)
             THEN [k2 EXCEPT !.device_key =
                       Decrypt(k2.keyblob_keys[gen], k2.per_console_key_source)]
             ELSE k2

RECURSIVE DeriveKeyblobKeys(_, _)
DeriveKeyblobKeys(k, gen) ==
    IF gen < KeyGeneration_6_2_0
    THEN DeriveKeyblobKeys(KeyblobKeyPass(k, gen), gen + 1)
    ELSE k

(* Lines 141-150: every pass ends at a TODO; nothing is written. *)
DecryptKeyblobsDecrypting(k) ==
    IF \/ \A g \in DOMAIN k.keyblob_keys : IsZero(k.keyblob_keys[g])
       \/ \A g \in DOMAIN k.keyblob_mac_keys : IsZero(k.keyblob_mac_keys[g])
       \/ \A g \in DOMAIN k.encrypted_keyblobs : IsZero(k.encrypted_keyblobs[g])
    THEN k
    ELSE [k EXCEPT !.keyblobs =
              [g \in DOMAIN @ |->
                  IF g < KeyGeneration_6_2_0
                  THEN [@[g] EXCEPT !.mkek =
                            Decrypt(k.keyblob_keys[g], k.encrypted_keyblobs[g])]
                  ELSE @[g]]]

DecryptKeyblobs(k) == k

(* One pass of the loop of lines 153-161. *)
KeyblobFieldsPassBothOrNone(k, gen) ==
    IF ~IsZero(k.keyblobs[gen].pk1) /\ ~IsZero(k.keyblobs[gen].mkek)
    THEN [k EXCEPT !.package1_keys[gen] = k.keyblobs[gen].pk1,
                   !.master_keks[gen] = k.keyblobs[gen].mkek]
    ELSE k

KeyblobFieldsPass(k, gen) ==
    LET k1 == IF ~IsZero(k.keyblobs[gen].pk1)
              THEN [k EXCEPT !.package1_keys[gen] = k.keyblobs[gen].pk1]
              ELSE k
    IN  IF ~IsZero(k1.keyblobs[gen].mkek)
        THEN [k1 EXCEPT !.master_keks[gen] = k1.keyblobs[gen].mkek]
        ELSE k1

RECURSIVE SetKeyblobFields(_, _)
SetKeyblobFields(k, gen) ==
    IF gen < KeyGeneration_6_2_0
    THEN SetKeyblobFields(KeyblobFieldsPass(k, gen), gen + 1)
    ELSE k

(* Lines 163-170: every pass ends at a TODO; nothing is written. *)
DeriveTsecKeys(k) == k

(* One pass of the loop of lines 173-178. *)
MarikoPassKeepingSupplied(k, gen) ==
    IF \/ IsZero(k.mariko_kek)
       \/ IsZero(k.mariko_master_kek_sources[gen])
       \/ ~IsZero(k.master_keks[gen])
    THEN k
    ELSE [k EXCEPT !.master_keks[gen] =
              Decrypt(k.mariko_kek, k.mariko_master_kek_sources[gen])]

MarikoPass(k, gen) ==
    IF IsZero(k.mariko_kek) \/ IsZero(k.mariko_master_kek_sources[gen]) THEN k
    ELSE [k EXCEPT !.master_keks[gen] =
              Decrypt(k.mariko_kek, k.mariko_master_kek_sources[gen])]

RECURSIVE DeriveMarikoMasterKeks(_, _)
DeriveMarikoMasterKeks(k, gen) ==
    IF gen < KeyGeneration_Max
    THEN DeriveMarikoMasterKeks(MarikoPass(k, gen), gen + 1)
    ELSE k

(* One pass of the loop of lines 181-186. *)
MasterKeyPassUnguarded(k, gen) ==
    IF IsZero(k.master_keks[gen]) THEN k
    ELSE [k EXCEPT !.master_keys[gen] = Decrypt(k.master_keks[gen], k.master_key_source)]

MasterKeyPass(k, gen) ==
    IF IsZero(k.master_key_source) \/ IsZero(k.master_keks[gen]) THEN k
    ELSE [k EXCEPT !.master_keys[gen] = Decrypt(k.master_keks[gen], k.master_key_source)]

RECURSIVE DeriveMasterKeys(_, _)
DeriveMasterKeys(k, gen) ==
    IF gen < KeyGeneration_Max
    THEN DeriveMasterKeys(MasterKeyPass(k, gen), gen + 1)
    ELSE k

(* DeriveKeys, lines 119-189: the stages in the order of the source. *)
DeriveKeysMarikoBeforeKeyblobs(k) ==
    DeriveMasterKeys(
        DeriveTsecKeys(
            SetKeyblobFields(
                DeriveMarikoMasterKeks(
                    DecryptKeyblobs(
                        DeriveKeyblobKeys(k, KeyGeneration_1_0_0)),
                    KeyGeneration_1_0_0),
                KeyGeneration_1_0_0)),
        KeyGeneration_1_0_0)

DeriveKeysMasterKeysBeforeMariko(k) ==
    DeriveMarikoMasterKeks(
        DeriveMasterKeys(
            DeriveTsecKeys(
                SetKeyblobFields(
                    DecryptKeyblobs(
                        DeriveKeyblobKeys(k, KeyGeneration_1_0_0)),
                    KeyGeneration_1_0_0)),
            KeyGeneration_1_0_0),
        KeyGeneration_1_0_0)

DeriveKeys(k) ==
    DeriveMasterKeys(
        DeriveMarikoMasterKeks(
            DeriveTsecKeys(
                SetKeyblobFields(
                    DecryptKeyblobs(
                        DeriveKeyblobKeys(k, KeyGeneration_1_0_0)),
                    KeyGeneration_1_0_0)),
            KeyGeneration_1_0_0),
        KeyGeneration_1_0_0)

----------------------------------------------------------------------------
(* LoadExternalKey, lines 251-340. A key is <<kn>> for the text kn and      *)
(* <<kn, sfx>> for the text kn, "_" and the characters sfx; value is the    *)
(* decoding of the value string.                                            *)
ScalarNames ==
    {"aes_kek_generation_source", "aes_key_generation_source",
     "key_area_key_application_source", "key_area_key_ocean_source",
     "key_area_key_system_source", "titlekek_source", "header_kek_source",
     "header_key_source", "header_key", "package2_key_source",
     "per_console_key_source", "xci_header_key", "sd_card_kek_source",
     "sd_card_nca_key_source", "sd_card_save_key_source", "save_mac_kek_source",
     "save_mac_key_source", "master_key_source", "keyblob_mac_key_source",
     "secure_boot_key", "tsec_key", "mariko_kek", "mariko_bek", "tsec_root_kek",
     "package1_mac_kek", "package1_kek"}

(* ks.kn##s: the array a suffixed name kn_XX is decoded into. *)
ArrayOf ==
    [keyblob_key_source       |-> "keyblob_key_sources",
     keyblob_key              |-> "keyblob_keys",
     keyblob_mac_key          |-> "keyblob_mac_keys",
     encrypted_keyblob        |-> "encrypted_keyblobs",
     keyblob                  |-> "keyblobs",
     mariko_master_kek_source |-> "mariko_master_kek_sources",
     tsec_auth_signature      |-> "tsec_auth_signatures",
     tsec_root_key            |-> "tsec_root_keys",
     master_kek_source        |-> "master_kek_sources",
     package1_mac_key         |-> "package1_mac_keys",
     mariko_aes_class_key     |-> "mariko_aes_class_keys",
     master_kek               |-> "master_keks",
     master_key               |-> "master_keys",
     package1_key             |-> "package1_keys",
     package2_key             |-> "package2_keys",
     titlekek                 |-> "titlekeks"]

(* The numbers n for which a loop of lines 286-335 tests the name kn_n. *)
SuffixesOfAllAbsolute(kn) ==
    IF kn \in {"keyblob_key_source", "keyblob_key", "keyblob_mac_key",
               "encrypted_keyblob", "keyblob"}
    THEN KeyGeneration_1_0_0 .. (KeyGeneration_6_2_0 - 1)
    ELSE IF kn = "mariko_master_kek_source"
    THEN (KeyGeneration_1_0_0 .. (KeyGeneration_6_2_0 - 1))
             \cup (KeyGeneration_6_2_0 .. (KeyGeneration_Max - 1))
    ELSE IF kn \in {"tsec_auth_signature", "tsec_root_key", "master_kek_source",
                    "package1_mac_key"}
    THEN KeyGeneration_6_2_0 .. (KeyGeneration_Max - 1)
    ELSE IF kn = "mariko_aes_class_key"
    THEN 0 .. (MarikoAesClassKeys - 1)
    ELSE IF kn \in {"master_kek", "master_key", "package1_key", "package2_key", "titlekek"}
    THEN KeyGeneration_1_0_0 .. (KeyGeneration_Max - 1)
    ELSE {}

SuffixesOf(kn) ==
    IF kn \in {"keyblob_key_source", "keyblob_key", "keyblob_mac_key",
               "encrypted_keyblob", "keyblob"}
    THEN KeyGeneration_1_0_0 .. (KeyGeneration_6_2_0 - 1)
    ELSE IF kn = "mariko_master_kek_source"
    THEN (KeyGeneration_1_0_0 .. (KeyGeneration_6_2_0 - 1))
             \cup (KeyGeneration_6_2_0 .. (KeyGeneration_Max - 1))
    ELSE IF kn \in {"tsec_auth_signature", "tsec_root_key"}
    THEN {gen - KeyGeneration_6_2_0 : gen \in KeyGeneration_6_2_0 .. (KeyGeneration_Max - 1)}
    ELSE IF kn \in {"master_kek_source", "package1_mac_key"}
    THEN KeyGeneration_6_2_0 .. (KeyGeneration_Max - 1)
    ELSE IF kn = "mariko_aes_class_key"
    THEN 0 .. (MarikoAesClassKeys - 1)
    ELSE IF kn \in {"master_kek", "master_key", "package1_key", "package2_key", "titlekek"}
    THEN KeyGeneration_1_0_0 .. (KeyGeneration_Max - 1)
    ELSE {}

KeyAreaPurpose ==
    [key_area_key_application |-> 0, key_area_key_ocean |-> 1, key_area_key_system |-> 2]

(* What "%02x" prints for the number n (n < 0x100). *)
Fmt02d(n) == <<Ch0 + ((n \div 10) % 10), Ch0 + (n % 10)>>

Fmt02x(n) == <<HexDigit((n \div 16) % 16, FALSE), HexDigit(n % 16, FALSE)>>

(* The numbers gn of the loops for which strcmp(key, "kn_%02x" % gn) == 0. *)
HitsAnySuffix(kn, sfx) == SuffixesOf(kn)

Hits(kn, sfx) == {gn \in SuffixesOf(kn) : Fmt02x(gn) = sfx}

KeyAreaHits(sfx) == {gen \in Gens : Fmt02x(gen) = sfx}

Matches(name) ==
    \/ Len(name) = 1 /\ name[1] \in ScalarNames
    \/ Len(name) = 2 /\ name[1] \in DOMAIN ArrayOf /\ Hits(name[1], name[2]) # {}
    \/ Len(name) = 2 /\ name[1] \in DOMAIN KeyAreaPurpose /\ KeyAreaHits(name[2]) # {}

LoadExternalKey(k, name, value) ==
    IF Len(name) = 1 /\ name[1] \in ScalarNames
    THEN [k EXCEPT ![name[1]] = value]
    ELSE IF Len(name) = 2 /\ name[1] \in DOMAIN ArrayOf
    THEN [k EXCEPT ![ArrayOf[name[1]]] =
              [gn \in DOMAIN @ \cup Hits(name[1], name[2]) |->
                  IF gn \in Hits(name[1], name[2]) THEN value ELSE @[gn]]]
    ELSE IF Len(name) = 2 /\ name[1] \in DOMAIN KeyAreaPurpose
    THEN [k EXCEPT !.key_area_keys =
              [gen \in DOMAIN @ |->
                  IF gen \in KeyAreaHits(name[2])
                  THEN [@[gen] EXCEPT ![KeyAreaPurpose[name[1]]] = value]
                  ELSE @[gen]]]
    ELSE k

----------------------------------------------------------------------------
(* The letters of the key names that the modelled key files spell out. *)
Chc == Cha + 2
Chm == Cha + 12
Chr == Cha + 17
Chs == Cha + 18
Cht == Cha + 19

(* The text of the names tested at lines 276 and 311. *)
Spell ==
    [tsec_key   |-> <<Cht, Chs, Che, Chc, USCORE, Chk, Che, Chy>>,
     master_key |-> <<Chm, Cha, Chs, Cht, Che, Chr, USCORE, Chk, Che, Chy>>,
     master_kek |-> <<Chm, Cha, Chs, Cht, Che, Chr, USCORE, Chk, Che, Chk>>,
     master_key_source |->
         <<Chm, Cha, Chs, Cht, Che, Chr, USCORE, Chk, Che, Chy, USCORE,
           Chs, Cha + 14, Cha + 20, Chr, Chc, Che>>]

(* The key a string of characters is, as LoadExternalKey takes it: <<kn>>   *)
(* when it is the text kn, <<kn, sfx>> when it is kn, "_" and sfx; a string *)
(* that is neither is a key that matches no name.                           *)
KeyName(chars) ==
    IF \E kn \in DOMAIN Spell : chars = Spell[kn]
    THEN <<CHOOSE kn \in DOMAIN Spell : chars = Spell[kn]>>
    ELSE IF \E kn \in DOMAIN Spell :
                /\ Len(chars) > Len(Spell[kn]) + 1
                /\ SubSeq(chars, 1, Len(Spell[kn]) + 1) = Spell[kn] \o <<USCORE>>
    THEN LET kn == CHOOSE n \in DOMAIN Spell :
                       /\ Len(chars) > Len(Spell[n]) + 1
                       /\ SubSeq(chars, 1, Len(Spell[n]) + 1) = Spell[n] \o <<USCORE>>
         IN  <<kn, SubSeq(chars, Len(Spell[kn]) + 2, Len(chars))>>
    ELSE <<"no_such_key">>

(* sizeof(ks.kn), sizeof(ks.kn##s[gn]): lines 28-72. *)
AesKeySize == 16

SlotBytes(name) ==
    IF name[1] = "encrypted_keyblob" THEN 176
    ELSE IF name[1] = "keyblob" THEN 144
    ELSE IF name[1] \in {"sd_card_nca_key_source", "sd_card_save_key_source"} THEN 32
    ELSE IF name[1] \in {"header_key_source", "header_key"} THEN KeyGeneration_Max
    ELSE AesKeySize

(* The block that stands for an array of bytes: 0 for the all-zero array    *)
(* and for no other.                                                        *)
BlockOf(bytes) ==
    IF \A i \in 1..Len(bytes) : bytes[i] = 0 THEN 0 ELSE 1 + (bytes[1] % 4)

(* What DecodeHex(ks.slot, value, sizeof(ks.slot)) leaves in the slot. *)
SlotValue(m, value, name) ==
    LET bytes == DecodeHex(m, value, SlotBytes(name))
    IN  IF name[1] = "keyblob"
        THEN [mkek |-> BlockOf(SubSeq(bytes, 1, AesKeySize)),
              pk1  |-> BlockOf(SubSeq(bytes, 129, 128 + AesKeySize))]
        ELSE BlockOf(bytes)

(* The callback of lines 491-493: LoadExternalKey on the strings. *)
LoadKey(k, m, key, value) ==
    LET name == KeyName(CStr(m, key))
    IN  [ks   |-> LoadExternalKey(k, name, SlotValue(m, value, name)),
         warn |-> IF ~Matches(name) THEN <<"unmatched">>
                  ELSE IF DecodeHexWarns(m, value, SlotBytes(name))
                  THEN <<"decode_length">>
                  ELSE <<>>]

(* The callback f of LoadKeyValueFile, lines 491-493 and 511-513: what it   *)
(* registers, what it warns of, the registry it leaves.                     *)
Callback(s, k, m, key, value) ==
    IF s = "title"
    THEN [reg  |-> LoadTitleKey(m, key, value).reg,
          warn |-> LoadTitleKey(m, key, value).warn,
          ks   |-> k]
    ELSE IF s = "keys"
    THEN [reg |-> <<>>, warn |-> LoadKey(k, m, key, value).warn,
          ks  |-> LoadKey(k, m, key, value).ks]
    ELSE [reg |-> <<>>, warn |-> <<>>, ks |-> k]

----------------------------------------------------------------------------
(* An early return of ProcessKeyValueFile: control leaves the loop and the  *)
(* offset stays where the failing pass left it.                             *)
ResumeBehind(o) == [pc |-> "loop", ofs |-> o + 1]

Return(o) == [pc |-> "aborted", ofs |-> o]

Pass == Iteration(mem, ofs, file_size)

(* The buffer has exactly file_size bytes (line 467). What lies behind it   *)
(* is either heap bytes or, marked Unmapped, the end of the mapped memory:  *)
(* an access there ends the process.                                        *)
Unmapped == 0 - 1

(* The characters DecodeHex reads for the callback: 2 * size of them from   *)
(* each source it is called on.                                             *)
CallbackReads(s, m, key, value) ==
    IF s = "keys" /\ Matches(KeyName(CStr(m, key)))
    THEN value..(value + 2 * SlotBytes(KeyName(CStr(m, key))) - 1)
    ELSE IF s = "title" /\ LoadTitleKey(m, key, value).reg # <<>>
    THEN (key..(key + 2 * RightsIdSize - 1)) \cup (value..(value + 2 * AccessKeySize - 1))
    ELSE {}

(* The indices a pass touches besides those the loop bounds by file_size:   *)
(* the writes of lines 391 and 399, strlen(value) of line 345 up to the     *)
(* terminator it finds, and the reads of DecodeHex.                         *)
Touched(s, it) ==
    it.w \cup
    (IF it.res = "pair"
     THEN (it.value..(it.value + Len(CStr(it.mem, it.value)))) \cup
          (IF ValueCheck(CStr(it.mem, it.value)) = "ok"
           THEN CallbackReads(s, it.mem, it.key, it.value) ELSE {})
     ELSE {})

Faults(s, m, it) == \E i \in Touched(s, it) : Rd(m, i) = Unmapped

InLoop == pc = "loop" /\ ofs < file_size /\ ~Faults(sink, mem, Pass)

(* A pass that touches the unmapped byte behind the buffer. *)
Fault ==
    /\ pc = "loop"
    /\ ofs < file_size
    /\ Faults(sink, mem, Pass)
    /\ pc' = "killed"
    /\ stage' = "killed"
    /\ UNCHANGED <<file, mem, file_size, ofs, sink, calls, log, oob, km>>
    /\ UNCHANGED keyVars
    /\ UNCHANGED <<spl, hx, xci>>

Wrote(it) == oob' = oob \cup {i \in it.w : i >= file_size}

(* Lines 367-370. *)
SkipFiller ==
    /\ InLoop
    /\ Pass.res = "skip"
    /\ ofs' = Pass.ofs
    /\ UNCHANGED <<file, mem, file_size, pc, sink, calls, log, oob, km>>
    /\ UNCHANGED keyVars
    /\ UNCHANGED <<stage, spl, hx, xci>>

Abort(res) ==
    /\ mem' = Pass.mem
    /\ Wrote(Pass)
    /\ log' = Append(log, res)
    /\ pc' = Return(Pass.ofs).pc
    /\ ofs' = Return(Pass.ofs).ofs
    /\ UNCHANGED <<file, file_size, sink, calls, km>>
    /\ UNCHANGED keyVars
    /\ UNCHANGED <<stage, spl, hx, xci>>

(* Lines 380-383 and 390-394. *)
MalformedKey ==
    /\ InLoop
    /\ Pass.res = "bad_key"
    /\ Abort("bad_key")

(* Lines 398-402. *)
TruncatedKey ==
    /\ InLoop
    /\ Pass.res = "truncated"
    /\ Abort("truncated")

(* Lines 413-416. *)
MalformedDelimiter ==
    /\ InLoop
    /\ Pass.res = "bad_delim"
    /\ Abort("bad_delim")

(* Lines 421-424. *)
EmptyKey ==
    /\ InLoop
    /\ Pass.res = "empty_key"
    /\ Abort("empty_key")

(* Lines 431-434. *)
MissingValue ==
    /\ InLoop
    /\ Pass.res = "missing_value"
    /\ Abort("missing_value")

(* Lines 436-447 with ProcessKeyValue returning at line 348 or 355. *)
RejectedValue ==
    /\ InLoop
    /\ Pass.res = "pair"
    /\ ValueCheck(CStr(Pass.mem, Pass.value)) # "ok"
    /\ mem' = Pass.mem
    /\ Wrote(Pass)
    /\ ofs' = Pass.ofs
    /\ log' = Append(log, ValueCheck(CStr(Pass.mem, Pass.value)))
    /\ UNCHANGED <<file, file_size, pc, sink, calls, km>>
    /\ UNCHANGED keyVars
    /\ UNCHANGED <<stage, spl, hx, xci>>

(* Lines 436-447 with ProcessKeyValue reaching f(key, value), line 359. *)
AcceptedValue ==
    /\ InLoop
    /\ Pass.res = "pair"
    /\ ValueCheck(CStr(Pass.mem, Pass.value)) = "ok"
    /\ mem' = Pass.mem
    /\ Wrote(Pass)
    /\ ofs' = Pass.ofs
    /\ calls' = Append(calls, <<CStr(Pass.mem, Pass.key), CStr(Pass.mem, Pass.value)>>)
    /\ km' = km \o Callback(sink, ks, Pass.mem, Pass.key, Pass.value).reg
    /\ log' = log \o Callback(sink, ks, Pass.mem, Pass.key, Pass.value).warn
    /\ ks' = Callback(sink, ks, Pass.mem, Pass.key, Pass.value).ks
    /\ UNCHANGED <<file, file_size, pc, sink>>
    /\ UNCHANGED <<ks_in, ks_pre, npairs, nderive>>
    /\ UNCHANGED <<stage, spl, hx, xci>>

(* Line 365: the loop ends when ofs reaches file_size. *)
LoopExit ==
    /\ pc = "loop"
    /\ ofs >= file_size
    /\ pc' = "done"
    /\ UNCHANGED <<file, mem, file_size, ofs, sink, calls, log, oob, km>>
    /\ UNCHANGED keyVars
    /\ UNCHANGED <<stage, spl, hx, xci>>

ParserNext ==
    \/ SkipFiller
    \/ MalformedKey
    \/ TruncatedKey
    \/ MalformedDelimiter
    \/ EmptyKey
    \/ MissingValue
    \/ RejectedValue
    \/ AcceptedValue
    \/ LoopExit

----------------------------------------------------------------------------
(* The key files the parser is run on.                                      *)
MaxEntries == 3
MaxRaw == 4
MaxTitleEntries == 2

(* "key_a=0011,KEY_B = 2233\n" *)
FileCommaSeparated ==
    <<Chk, Che, Chy, USCORE, Cha, EQ, Ch0, Ch0, Ch1, Ch1, COMMA,
      ChK, ChE, ChY, USCORE, ChB, SP, EQ, SP, Ch2, Ch2, Ch3, Ch3, LF>>

(* "key_a=0011\nKEY_B = 2233\n" *)
FileLineSeparated ==
    <<Chk, Che, Chy, USCORE, Cha, EQ, Ch0, Ch0, Ch1, Ch1, LF,
      ChK, ChE, ChY, USCORE, ChB, SP, EQ, SP, Ch2, Ch2, Ch3, Ch3, LF>>

(* Entries a key file is put together from. *)
EntryGood == <<Chk, EQ, Ch0, Ch0, LF>>                 \* "k=00\n"
EntryUpper == <<ChK, SP, COMMA, SP, Ch1, Ch1, LF>>     \* "K , 11\n"
EntryOddValue == <<Chk, EQ, Ch0, LF>>                  \* "k=0\n"
EntryNonHexValue == <<Chk, EQ, Ch0, Chg, LF>>          \* "k=0g\n"
EntryBadChar == <<Chk, BANG, EQ, Ch0, Ch0, LF>>        \* "k!=00\n"
EntryNulInKey == <<Chk, NUL, Chk, EQ, Ch0, Ch0, LF>>   \* "k\0k=00\n"
EntryNoDelimiter == <<Chk, SP, Ch0, Ch0, LF>>          \* "k 00\n"
EntryEmptyKey == <<EQ, Ch0, Ch0, LF>>                  \* "=00\n"
EntryUnterminated == <<Chb, EQ, Ch2, Ch2>>             \* "b=22"
EntryKeyOnly == <<Chk>>                                \* "k"

Entries ==
    {EntryGood, EntryUpper, EntryOddValue, EntryNonHexValue, EntryBadChar,
     EntryNulInKey, EntryNoDelimiter, EntryEmptyKey, EntryUnterminated, EntryKeyOnly}

RECURSIVE Concats(_, _)
Concats(S, n) ==
    IF n = 0 THEN {<<>>}
    ELSE {<<>>} \cup {e \o t : e \in S, t \in Concats(S, n - 1)}

RawAlphabet == {Chk, ChK, Ch0, EQ, SP, LF, NUL, BANG}

RawFiles == UNION {[1..n -> RawAlphabet] : n \in 0..MaxRaw}

(* One entry "k<sep>00\n" for every separator: "=" or "," with spaces and   *)
(* tabs, or none, on either side.                                           *)
Blanks == {<<>>, <<SP>>, <<TAB>>, <<SP, TAB>>}

DelimiterFiles ==
    {<<Chk>> \o b1 \o <<d>> \o b2 \o <<Ch0, Ch0, LF>> :
        b1 \in Blanks, d \in {EQ, COMMA}, b2 \in Blanks}

(* A key, spaces or tabs, a character that is no separator, and then a      *)
(* well-formed entry.                                                       *)
NoDelimiterFiles ==
    {<<Chk>> \o b1 \o <<c>> \o <<LF>> \o EntryGood :
        b1 \in Blanks \ {<<>>}, c \in {Ch0, Chk, BANG, LF, NUL}}

KeyFiles ==
    {FileCommaSeparated, FileLineSeparated} \cup Concats(Entries, MaxEntries) \cup RawFiles
    \cup DelimiterFiles \cup NoDelimiterFiles

(* The bytes behind the buffer: whatever the heap holds there. *)
HeapTails == {<<NUL, NUL>>, <<Ch1, NUL>>}

InitKeysIdle ==
    /\ ks = ZeroKeySet
    /\ ks_in = ZeroKeySet
    /\ ks_pre = ZeroKeySet
    /\ npairs = 0
    /\ nderive = 0

(* ProcessKeyValueFile entered with the file read into the buffer. *)
InitParser(files, s) ==
    /\ file \in files
    /\ \E t \in HeapTails : mem = file \o t
    /\ file_size = Len(file)
    /\ ofs = 0
    /\ pc = "loop"
    /\ sink = s
    /\ calls = <<>>
    /\ log = <<>>
    /\ oob = {}
    /\ km = <<>>
    /\ InitKeysIdle
    /\ stage = "none"
    /\ spl = <<>>
    /\ hx = HexIdle
    /\ xci = XciIdle

Init == InitParser(KeyFiles, "record")

Next == ParserNext

Spec == Init /\ [][Next]_vars

----------------------------------------------------------------------------
(* PresetInternalKeys, lines 485-497, at the registry: the pairs of the key *)
(* file are applied one by one, then DeriveKeys runs. A second run of       *)
(* DeriveKeys (the program makes one) is there for the re-run property.     *)
MaxPairs == 4
MaxDerive == 2

(* The key names of the modelled key files. The seeds and the master keks   *)
(* are named for the first and the last generation below 6.2.0, for 6.2.0   *)
(* and for one suffix past the last generation; the                         *)
(* other derived slots are named for generation 1.0.0 and for one suffix    *)
(* past the last, the encrypted keyblob for generation 1.0.0; one name      *)
(* matches nothing.                                                         *)
SeedFamilies ==
    {"keyblob_key_source", "keyblob", "mariko_master_kek_source", "master_kek"}

SeedSuffixes ==
    {KeyGeneration_1_0_0, KeyGeneration_6_2_0 - 1, KeyGeneration_6_2_0, KeyGeneration_Max}

OverrideFamilies ==
    {"keyblob_key", "keyblob_mac_key", "master_key", "package1_key", "tsec_auth_signature"}

FileNames ==
    {<<"secure_boot_key">>, <<"tsec_key">>, <<"keyblob_mac_key_source">>,
     <<"per_console_key_source">>, <<"mariko_kek">>, <<"master_key_source">>,
     <<"no_such_key">>}
    \cup {<<kn, Fmt02x(n)>> : kn \in SeedFamilies, n \in SeedSuffixes}
    \cup {<<kn, Fmt02x(n)>> :
             kn \in OverrideFamilies, n \in {KeyGeneration_1_0_0, KeyGeneration_Max}}
    \cup {<<"encrypted_keyblob", Fmt02x(KeyGeneration_1_0_0)>>}

(* The decoded values of the modelled key files: one value for a name, two *)
(* for a master kek and for tsec_key, and three for a keyblob (either span *)
(* zero, or neither). With one tsec_key S1 derives the all-zero block for   *)
(* generation 1.0.0 and a non-zero key for the next one, with the other it  *)
(* is the other way round.                                                  *)
ScalarValue ==
    [secure_boot_key |-> 1, tsec_key |-> 2, keyblob_mac_key_source |-> 3,
     per_console_key_source |-> 1, mariko_kek |-> 2, master_key_source |-> 3,
     no_such_key |-> 1]

FileValues(name) ==
    IF name[1] = "keyblob"
    THEN {[mkek |-> 1, pk1 |-> 0], [mkek |-> 0, pk1 |-> 2], [mkek |-> 4, pk1 |-> 3]}
    ELSE IF name[1] = "tsec_key" THEN {ScalarValue.tsec_key, ScalarValue.tsec_key + 1}
    ELSE IF Len(name) = 1 THEN {ScalarValue[name[1]]}
    ELSE IF name[1] = "master_kek"
    THEN {1 + (HexToI(name[2][2]) % 4), 4 - (HexToI(name[2][2]) % 4)}
    ELSE {1 + (HexToI(name[2][2]) % 4)}

(* One pair of the key file reaches the callback of lines 491-493. *)
LoadPair ==
    /\ nderive = 0
    /\ npairs < MaxPairs
    /\ \E name \in FileNames : \E value \in FileValues(name) :
           ks' = LoadExternalKey(ks, name, value)
    /\ npairs' = npairs + 1
    /\ UNCHANGED <<ks_in, ks_pre, nderive>>
    /\ UNCHANGED parserVars
    /\ UNCHANGED <<stage, spl, hx, xci>>

(* Line 497. *)
Derive ==
    /\ nderive < MaxDerive
    /\ ks' = DeriveKeys(ks)
    /\ ks_pre' = ks
    /\ ks_in' = IF nderive = 0 THEN ks ELSE ks_in
    /\ nderive' = nderive + 1
    /\ UNCHANGED npairs
    /\ UNCHANGED parserVars
    /\ UNCHANGED <<stage, spl, hx, xci>>

InitKeys ==
    /\ file = <<>>
    /\ mem = <<>>
    /\ file_size = 0
    /\ ofs = 0
    /\ pc = "idle"
    /\ sink = "keys"
    /\ calls = <<>>
    /\ log = <<>>
    /\ oob = {}
    /\ km = <<>>
    /\ InitKeysIdle
    /\ stage = "none"
    /\ spl = <<>>
    /\ hx = HexIdle
    /\ xci = XciIdle

NextKeys == LoadPair \/ Derive

SpecKeys == InitKeys /\ [][NextKeys]_vars

----------------------------------------------------------------------------
(* LoadExternalKey on its own: the callback of lines 491-493 called with    *)
(* one key after the other. calls records <<name, value>> of each call.     *)
MaxCalls == 2

DispatchFamilies ==
    {"keyblob_key_source", "keyblob_key", "keyblob_mac_key", "encrypted_keyblob",
     "keyblob", "mariko_master_kek_source", "tsec_auth_signature", "tsec_root_key",
     "master_kek_source", "package1_mac_key", "mariko_aes_class_key", "master_key",
     "key_area_key_ocean"}

(* The suffixes of the modelled keys: the first generation, those around    *)
(* the 6.2.0 breakpoint and around the last one, and two numbers that read  *)
(* differently in hex and in decimal.                                       *)
DispatchSuffixes ==
    {Fmt02x(n) : n \in {0, KeyGeneration_6_2_0 - 1, KeyGeneration_6_2_0,
                        KeyGeneration_Max - 1, KeyGeneration_Max, 10, 16}}

DispatchNames ==
    {<<"tsec_key">>, <<"master_key_source">>, <<"no_such_key">>, <<"master_key">>}
    \cup {<<kn, sfx>> : kn \in DispatchFamilies, sfx \in DispatchSuffixes}

(* The decoded value of the n-th call: different for different calls. *)
DispatchValue(name, n) ==
    IF name[1] = "keyblob" THEN [mkek |-> n, pk1 |-> n] ELSE n

(* A key that one of the tests of lines 257-335 matches. *)
DispatchMatched ==
    /\ Len(calls) < MaxCalls
    /\ \E name \in DispatchNames :
           /\ Matches(name)
           /\ calls' = Append(calls, <<name, DispatchValue(name, Len(calls) + 1)>>)
           /\ ks' = LoadExternalKey(ks, name, DispatchValue(name, Len(calls) + 1))
    /\ UNCHANGED <<file, mem, file_size, ofs, pc, sink, log, oob, km>>
    /\ UNCHANGED <<ks_in, ks_pre, npairs, nderive, stage, spl, hx, xci>>

(* A key that none matches: the warning of lines 337-339. *)
DispatchUnmatched ==
    /\ Len(calls) < MaxCalls
    /\ \E name \in DispatchNames :
           /\ ~Matches(name)
           /\ calls' = Append(calls, <<name, DispatchValue(name, Len(calls) + 1)>>)
           /\ ks' = LoadExternalKey(ks, name, DispatchValue(name, Len(calls) + 1))
    /\ log' = Append(log, "unmatched")
    /\ UNCHANGED <<file, mem, file_size, ofs, pc, sink, oob, km>>
    /\ UNCHANGED <<ks_in, ks_pre, npairs, nderive, stage, spl, hx, xci>>

NextDispatch == DispatchMatched \/ DispatchUnmatched

SpecDispatch == InitKeys /\ [][NextDispatch]_vars

----------------------------------------------------------------------------
(* DecodeHex on its own: the calls of lines 241 and 245 and of the          *)
(* TEST_KEY macros, lines 254-255. The sizes are scaled down from           *)
(* sizeof(slot); src is the value string inside the key-file buffer, so     *)
(* what lies behind its terminator is the rest of that buffer.              *)
MaxHexSize == 2

HexSizes == 1..MaxHexSize

HexAlphabet == {Ch1, Cha, ChF, Chg}

ByteSamples == {0, 10, 159, 171, 255}

ByteArrays(n) == [1..n -> ByteSamples]

(* The 2N-character hex encoding of the byte array b. *)
EncodeHex(b, upper) ==
    [i \in 1..(2 * Len(b)) |->
        IF i % 2 = 1 THEN HexDigit(b[(i + 1) \div 2] \div 16, upper)
        ELSE HexDigit(b[i \div 2] % 16, upper)]

HexSources ==
    UNION {[1..n -> HexAlphabet] : n \in 0..(2 * MaxHexSize + 1)}
    \cup {EncodeHex(b, u) : b \in UNION {ByteArrays(n) : n \in HexSizes}, u \in BOOLEAN}

(* The bytes behind the terminator of src. *)
HexTails == {<<NUL>>, <<Ch2, Ch3, ChB, Ch1, NUL>>}

InitHex ==
    /\ \E str \in HexSources : \E t \in HexTails : \E n \in HexSizes :
       \E d \in {0, 238} :
           hx = [pc |-> "ready", m |-> str \o <<NUL>> \o t, src |-> 0, size |-> n,
                 dst0 |-> [i \in 1..n |-> d], dst |-> [i \in 1..n |-> d], warn |-> FALSE]
    /\ file = <<>>
    /\ mem = <<>>
    /\ file_size = 0
    /\ ofs = 0
    /\ pc = "idle"
    /\ sink = "none"
    /\ calls = <<>>
    /\ log = <<>>
    /\ oob = {}
    /\ km = <<>>
    /\ InitKeysIdle
    /\ stage = "none"
    /\ spl = <<>>
    /\ xci = XciIdle

SpecHex == InitHex /\ [][NextHex]_vars

----------------------------------------------------------------------------
(* Title-key files: LoadKeyValueFile with the LoadTitleKey callback, lines  *)
(* 510-514.                                                                 *)
Rep(c, n) == [i \in 1..n |-> c]

TitleValue == Rep(Ch1, AccessKeyChars)

TitleGoodA == Rep(Cha, 32) \o <<EQ>> \o TitleValue \o <<LF>>
TitleGoodB == Rep(ChB, 32) \o <<SP, EQ, SP>> \o Rep(Ch2, 32) \o <<LF>>
TitleOddId == Rep(Cha, 31) \o <<EQ>> \o TitleValue \o <<LF>>
TitleShortId == Rep(Cha, 30) \o <<EQ>> \o TitleValue \o <<LF>>
TitleNonHexId == Rep(Cha, 31) \o <<Chg, EQ>> \o TitleValue \o <<LF>>
TitleBangId == Rep(Cha, 31) \o <<BANG, EQ>> \o TitleValue \o <<LF>>
TitleShortValue == Rep(Chf, 32) \o <<EQ, Ch0, Ch0, Ch1, Ch1, LF>>
TitleLongValue == Rep(Che, 32) \o <<EQ>> \o Rep(Ch3, 34) \o <<LF>>
TitleUnterminated == Rep(Ch9, 32) \o <<EQ>> \o Rep(Ch3, 32)

TitleEntries ==
    {TitleGoodA, TitleGoodB, TitleOddId, TitleShortId, TitleNonHexId, TitleBangId,
     TitleShortValue, TitleLongValue, TitleUnterminated}

TitleFiles == Concats(TitleEntries, MaxTitleEntries) \cup RawFiles

InitTitle == InitParser(TitleFiles, "title")

SpecTitle == InitTitle /\ [][Next]_vars

----------------------------------------------------------------------------
(* Processor::PresetInternalKeys, lines 485-515, from end to end. stage is   *)
(* the statement the program is at; the parser runs while stage is          *)
(* "key_file" or "title_file".                                              *)
MaxPresetEntries == 2

PresetTsecFirst == Spell.tsec_key \o <<EQ>> \o Rep(Ch1, 2 * AesKeySize) \o <<LF>>
PresetTsecUpper ==
    <<ChA + 19, ChA + 18, ChE, ChA + 2, USCORE, ChK, ChE, ChY, SP, EQ, SP>>
    \o Rep(Ch2, 2 * AesKeySize) \o <<LF>>
PresetTsecUnterminated == Spell.tsec_key \o <<EQ>> \o Rep(Ch3, 2 * AesKeySize)
PresetMasterKek ==
    Spell.master_kek \o <<USCORE, Ch0, Ch0, EQ>> \o Rep(Ch1, 2 * AesKeySize) \o <<LF>>
PresetMasterKeySource ==
    Spell.master_key_source \o <<SP, COMMA>> \o Rep(Ch3, 2 * AesKeySize) \o <<LF>>

PresetEntries ==
    {PresetTsecFirst, PresetTsecUpper, PresetTsecUnterminated, PresetMasterKek,
     PresetMasterKeySource, EntryKeyOnly}

PresetKeyFiles == Concats(PresetEntries, MaxPresetEntries)

PresetNoValue == <<Chk, EQ>>                            \* "k="

PresetTitleFiles ==
    {<<>>, TitleGoodA, TitleBangId, TitleUnterminated, EntryNoDelimiter, EntryEmptyKey,
     PresetNoValue}

(* What lies behind the buffer: heap bytes, or nothing that is mapped. *)
PresetTails == HeapTails \cup {<<Unmapped>>}

(* LoadKeyValueFile, lines 451-480, up to the call of line 480. *)
ReadFile(files, s, st) ==
    /\ file' \in files
    /\ \E t \in PresetTails : mem' = file' \o t
    /\ file_size' = Len(file')
    /\ ofs' = 0
    /\ pc' = "loop"
    /\ sink' = s
    /\ oob' = {}
    /\ stage' = st
    /\ UNCHANGED <<calls, log, km, spl, hx, xci>>
    /\ UNCHANGED keyVars

(* The returns of lines 454-457, 461-465 and 474-478. *)
Unreadable(st) ==
    /\ log' = Append(log, "unreadable")
    /\ stage' = st
    /\ UNCHANGED <<file, mem, file_size, ofs, pc, sink, calls, oob, km, spl, hx, xci>>
    /\ UNCHANGED keyVars

(* Where PresetInternalKeys goes on when ProcessKeyValueFile is back. *)
AfterKeyFileExportsFirst(p) == "export"

AfterKeyFile(p) == "derive"

(* Line 490 with key_file_path == nullptr. *)
NoKeyFile ==
    /\ stage = "start"
    /\ stage' = "derive"
    /\ UNCHANGED <<file, mem, file_size, ofs, pc, sink, calls, log, oob, km, spl, hx, xci>>
    /\ UNCHANGED keyVars

KeyFileUnreadable == stage = "start" /\ Unreadable("derive")

KeyFileRead == stage = "start" /\ ReadFile(PresetKeyFiles, "keys", "key_file")

(* ProcessKeyValueFile has returned: lines 480 and 494. *)
KeyFileDone ==
    /\ stage = "key_file"
    /\ pc \in {"done", "aborted"}
    /\ stage' = AfterKeyFile(pc)
    /\ pc' = "idle"
    /\ UNCHANGED <<file, mem, file_size, ofs, sink, calls, log, oob, km, spl, hx, xci>>
    /\ UNCHANGED keyVars

(* Line 497. *)
PresetDerive ==
    /\ stage = "derive"
    /\ ks' = DeriveKeys(ks)
    /\ ks_pre' = ks
    /\ ks_in' = ks
    /\ nderive' = nderive + 1
    /\ stage' = "export"
    /\ UNCHANGED <<npairs, spl, hx, xci>>
    /\ UNCHANGED parserVars

(* Lines 500-502. *)
ExportMasterKeys ==
    /\ stage = "export"
    /\ spl' = [gen \in Gens |-> ks.master_keys[gen]]
    /\ stage' = "gamecard"
    /\ UNCHANGED <<hx, xci>>
    /\ UNCHANGED keyVars
    /\ UNCHANGED parserVars

(* Lines 505-507: the library call succeeds or fails with a warning. *)
SetGamecardKeys ==
    /\ stage = "gamecard"
    /\ \E ok \in BOOLEAN : log' = IF ok THEN log ELSE Append(log, "gamecard")
    /\ stage' = "title"
    /\ UNCHANGED <<file, mem, file_size, ofs, pc, sink, calls, oob, km, spl, hx, xci>>
    /\ UNCHANGED keyVars

(* Line 510 with titlekey_path == nullptr. *)
NoTitleFile ==
    /\ stage = "title"
    /\ stage' = "end"
    /\ UNCHANGED <<file, mem, file_size, ofs, pc, sink, calls, log, oob, km, spl, hx, xci>>
    /\ UNCHANGED keyVars

TitleFileUnreadable == stage = "title" /\ Unreadable("end")

TitleFileRead == stage = "title" /\ ReadFile(PresetTitleFiles, "title", "title_file")

(* Lines 480 and 514-515. *)
TitleFileDone ==
    /\ stage = "title_file"
    /\ pc \in {"done", "aborted"}
    /\ stage' = "end"
    /\ pc' = "idle"
    /\ UNCHANGED <<file, mem, file_size, ofs, sink, calls, log, oob, km, spl, hx, xci>>
    /\ UNCHANGED keyVars

(* Line 487: the registry as InitializeKeySet leaves it. *)
InitPreset ==
    /\ file = <<>>
    /\ mem = <<>>
    /\ file_size = 0
    /\ ofs = 0
    /\ pc = "idle"
    /\ sink = "none"
    /\ calls = <<>>
    /\ log = <<>>
    /\ oob = {}
    /\ km = <<>>
    /\ InitKeysIdle
    /\ stage = "start"
    /\ spl = <<>>
    /\ hx = HexIdle
    /\ xci = XciIdle

NextPreset ==
    \/ NoKeyFile
    \/ KeyFileUnreadable
    \/ KeyFileRead
    \/ KeyFileDone
    \/ PresetDerive
    \/ ExportMasterKeys
    \/ SetGamecardKeys
    \/ NoTitleFile
    \/ TitleFileUnreadable
    \/ TitleFileRead
    \/ TitleFileDone
    \/ ParserNext
    \/ Fault

SpecPreset == InitPreset /\ [][NextPreset]_vars

----------------------------------------------------------------------------
(* ProcessAsXci on its own: the storages it is called with. The sizes are   *)
(* those around the end of the initial data region and around the end of a  *)
(* card header behind it, and bodies of up to MaxXciBody card headers.      *)
MaxXciBody == 3

XciSizes ==
    {0, 1, CardInitialDataRegionSize - 1}
    \cup {CardInitialDataRegionSize + b * CardHeaderWithSignatureSize + d :
              b \in 0..MaxXciBody, d \in {0, 1}}

XciStorages ==
    [size : XciSizes, size_ok : BOOLEAN, read_ok : BOOLEAN,
     magic : {CardHeaderMagic, OtherMagic}]

InitXci ==
    /\ \E st \in XciStorages : xci = [XciIdle EXCEPT !.pc = "call", !.storage = st]
    /\ file = <<>>
    /\ mem = <<>>
    /\ file_size = 0
    /\ ofs = 0
    /\ pc = "idle"
    /\ sink = "none"
    /\ calls = <<>>
    /\ log = <<>>
    /\ oob = {}
    /\ km = <<>>
    /\ InitKeysIdle
    /\ stage = "none"
    /\ spl = <<>>
    /\ hx = HexIdle

SpecXci == InitXci /\ [][NextXci]_vars

----------------------------------------------------------------------------
(* Properties of the parser (Spec).                                         *)
Returned == pc \in {"done", "aborted"}

IsPrefix(a, b) == Len(a) <= Len(b) /\ SubSeq(b, 1, Len(a)) = a

PairKeyA == <<<<Chk, Che, Chy, USCORE, Cha>>, <<Ch0, Ch0, Ch1, Ch1>>>>
PairKeyB == <<<<Chk, Che, Chy, USCORE, Chb>>, <<Ch2, Ch2, Ch3, Ch3>>>>

(* C1 as stated: on "key_a=0011,KEY_B = 2233\n" the callback gets exactly   *)
(* ("key_a","0011") and then ("key_b","2233").                              *)
C1_CommaEndsValue ==
    (file = FileCommaSeparated /\ Returned) => calls = <<PairKeyA, PairKeyB>>

(* C1 amended: on "key_a=0011\nKEY_B = 2233\n" the callback gets exactly    *)
(* ("key_a","0011") and then ("key_b","2233"), the upper-case key folded;   *)
(* on "key_a=0011,KEY_B = 2233\n" it gets nothing: the "," does not end the *)
(* value, the value "0011,KEY_B" is rejected as not hexadecimal, and the    *)
(* "=" behind it is an empty key that ends the scan.                        *)
C1_LineSeparatedPairs ==
    Returned =>
        /\ file = FileLineSeparated => calls = <<PairKeyA, PairKeyB>> /\ log = <<>>
        /\ file = FileCommaSeparated =>
               calls = <<>> /\ log = <<"nonhex_value", "empty_key">>

C1_Witness ==
    /\ file = FileLineSeparated
    /\ pc = "done"
    /\ Len(calls) = 2
    /\ mem[12] = Chk

KeyAbortLogged ==
    \E i \in 1..Len(log) : log[i] \in {"bad_key", "truncated", "bad_delim", "empty_key"}

(* C2: once a malformed key has been met (a bad character, a NUL or the end *)
(* of the buffer inside the key, a missing delimiter, an empty key) the     *)
(* callback is invoked no more; the pairs handed over before stay.          *)
C2_FileScopeAbort ==
    [][IsPrefix(calls, calls') /\ (KeyAbortLogged => calls' = calls)]_vars

C2_Witness ==
    /\ file = EntryGood \o EntryBadChar \o EntryUpper
    /\ pc = "aborted"
    /\ log = <<"bad_key">>
    /\ calls = << <<<<Chk>>, <<Ch0, Ch0>>>> >>

(* The pair an entry stands for, or none when its value is to be skipped. *)
ValueEntries == {EntryGood, EntryUpper, EntryOddValue, EntryNonHexValue}

PairOf(e) ==
    IF e = EntryGood THEN << <<<<Chk>>, <<Ch0, Ch0>>>> >>
    ELSE IF e = EntryUpper THEN << <<<<Chk>>, <<Ch1, Ch1>>>> >>
    ELSE IF e = EntryUnterminated THEN << <<<<Chb>>, <<Ch2, Ch2>>>> >>
    ELSE <<>>

RECURSIVE Flatten(_)
Flatten(es) == IF es = <<>> THEN <<>> ELSE Head(es) \o Flatten(Tail(es))

RECURSIVE PairsOf(_)
PairsOf(es) == IF es = <<>> THEN <<>> ELSE PairOf(Head(es)) \o PairsOf(Tail(es))

(* Entries that end in a newline, and at most one at the end of the file    *)
(* that ends with the file.                                                 *)
ValueEntrySeqs ==
    LET lines == UNION {[1..n -> ValueEntries] : n \in 0..(MaxEntries - 1)}
    IN  lines \cup {Append(es, EntryUnterminated) : es \in lines}

BadValueEntries == {EntryOddValue, EntryNonHexValue}

(* C3 as stated, for the files that start with an entry whose value is odd  *)
(* in length or not hexadecimal: that entry is not handed to the callback,  *)
(* and every later entry with a well-formed value is, in order.             *)
C3_PairScopeSkip ==
    Returned =>
        \A es \in ValueEntrySeqs :
            (es # <<>> /\ es[1] \in BadValueEntries /\ file = Flatten(es))
                => calls = PairsOf(es)

(* C13 as stated: ProcessKeyValueFile writes only to buffer indices in      *)
(* [0, file_size).                                                          *)
C13_WritesInsideBuffer == \A i \in oob : i < file_size

----------------------------------------------------------------------------
(* Properties of the derivation (SpecKeys). ks_pre is the registry the      *)
(* latest DeriveKeys started from, ks the registry it left.                 *)
LegacyGens == KeyGeneration_1_0_0 .. (KeyGeneration_6_2_0 - 1)

(* C4: for every generation with mariko_kek and its                         *)
(* mariko_master_kek_source set when DeriveKeys runs, the final master kek  *)
(* is Decrypt(mariko_kek, mariko_master_kek_source[gen]), whatever the      *)
(* keyblob or a master_kek_XX line had put there.                           *)
C4_MarikoPrecedence ==
    nderive >= 1 =>
        \A gen \in Gens :
            (~IsZero(ks_pre.mariko_kek) /\ ~IsZero(ks_pre.mariko_master_kek_sources[gen]))
                => ks.master_keks[gen] =
                       Decrypt(ks_pre.mariko_kek, ks_pre.mariko_master_kek_sources[gen])

C4_Witness ==
    /\ nderive = 1
    /\ \E gen \in LegacyGens :
           /\ ~IsZero(ks_pre.mariko_kek)
           /\ ~IsZero(ks_pre.mariko_master_kek_sources[gen])
           /\ ~IsZero(ks_pre.keyblobs[gen].mkek)
           /\ ~IsZero(ks_pre.master_keks[gen])
           /\ ks.master_keks[gen] # ks_pre.keyblobs[gen].mkek
           /\ ks.master_keks[gen] # ks_pre.master_keks[gen]

(* C5: a second run of DeriveKeys, nothing loaded in between, leaves the    *)
(* registry as the first run left it.                                       *)
C5_DeriveTwice == nderive >= 2 => ks = ks_pre

C5_Witness ==
    /\ nderive = 2
    /\ ks = ks_pre
    /\ ks.master_keks # ks_in.master_keks
    /\ ks.master_keys # ks_in.master_keys
    /\ ~IsZero(ks.mariko_kek)

(* C6 as stated: with master_key_source unset, no master_key[gen] is        *)
(* non-zero after key-file loading and derivation.                          *)
C6_NoMasterKeyAtAll ==
    (nderive >= 1 /\ IsZero(ks.master_key_source))
        => \A gen \in Gens : IsZero(ks.master_keys[gen])

(* C6 amended: with master_key_source unset, DeriveKeys populates no        *)
(* master_key[gen]: after key-file loading and derivation every             *)
(* master_key[gen] holds what the key file left there, so it is non-zero    *)
(* only where a master_key_XX line of the key file supplied it.             *)
C6_NoMasterKeyDerived ==
    (nderive >= 1 /\ IsZero(ks.master_key_source))
        => \A gen \in Gens : ks.master_keys[gen] = ks_in.master_keys[gen]

C6_Witness ==
    /\ nderive = 1
    /\ IsZero(ks.master_key_source)
    /\ \E gen \in Gens : ~IsZero(ks.master_keks[gen]) /\ IsZero(ks.master_keys[gen])
    /\ \E gen \in Gens : ~IsZero(ks.master_keks[gen]) /\ ~IsZero(ks.master_keys[gen])

(* C7: for every generation below 6.2.0, with secure_boot_key, tsec_key and *)
(* keyblob_key_source[gen] set, DeriveKeys leaves keyblob_key[gen] =        *)
(* Decrypt(secure_boot_key, Decrypt(tsec_key, keyblob_key_source[gen]));    *)
(* with one of them unset, keyblob_key[gen] keeps its value.                *)
C7_KeyblobKey ==
    nderive >= 1 =>
        \A gen \in LegacyGens :
            ks.keyblob_keys[gen] =
                IF /\ ~IsZero(ks_pre.secure_boot_key)
                   /\ ~IsZero(ks_pre.tsec_key)
                   /\ ~IsZero(ks_pre.keyblob_key_sources[gen])
                THEN Decrypt(ks_pre.secure_boot_key,
                             Decrypt(ks_pre.tsec_key, ks_pre.keyblob_key_sources[gen]))
                ELSE ks_pre.keyblob_keys[gen]

C7_Witness ==
    /\ nderive = 1
    /\ ~IsZero(ks_pre.secure_boot_key)
    /\ ~IsZero(ks_pre.tsec_key)
    /\ \E gen \in LegacyGens :
           /\ ~IsZero(ks_pre.keyblob_key_sources[gen])
           /\ ks.keyblob_keys[gen] # ks_pre.keyblob_keys[gen]
    /\ \E gen \in LegacyGens :
           /\ IsZero(ks_pre.keyblob_key_sources[gen])
           /\ ~IsZero(ks_pre.keyblob_keys[gen])
           /\ ks.keyblob_keys[gen] = ks_pre.keyblob_keys[gen]

(* C8: for every generation, with master_key_source set and master_kek[gen] *)
(* set once the keyblob and the Mariko stage have run, DeriveKeys leaves    *)
(* master_key[gen] = Decrypt(master_kek[gen], master_key_source) for that   *)
(* final master_kek[gen]; otherwise master_key[gen] keeps its value.        *)
C8_MasterKeyFromFinalKek ==
    nderive >= 1 =>
        \A gen \in Gens :
            ks.master_keys[gen] =
                IF ~IsZero(ks.master_key_source) /\ ~IsZero(ks.master_keks[gen])
                THEN Decrypt(ks.master_keks[gen], ks.master_key_source)
                ELSE ks_pre.master_keys[gen]

C8_Witness ==
    /\ nderive = 1
    /\ ~IsZero(ks.master_key_source)
    /\ \E gen \in Gens :
           /\ ~IsZero(ks.master_keks[gen])
           /\ ks.master_keks[gen] # ks_pre.master_keks[gen]
           /\ ~IsZero(ks_pre.master_keks[gen])
           /\ ks.master_keys[gen] # Decrypt(ks_pre.master_keks[gen], ks.master_key_source)
    /\ \E gen \in Gens :
           /\ IsZero(ks.master_keks[gen])
           /\ ~IsZero(ks.master_keys[gen])

----------------------------------------------------------------------------
(* Properties of title-key loading (SpecTitle).                             *)
IsRightsId(k) == Len(k) = RightsIdChars /\ \A i \in 1..Len(k) : IsHexChar(k[i])

(* The bytes a string of hex digits stands for. *)
BytesOf(str) ==
    [i \in 1..(Len(str) \div 2) |-> HexToI(str[2 * i - 1]) * 16 + HexToI(str[2 * i])]

RightsIdsOf(regs) == [i \in 1..Len(regs) |-> regs[i][1]]

(* The rights IDs of the pairs of cs whose key is a rights ID, in order. *)
RECURSIVE RightsIdsIn(_)
RightsIdsIn(cs) ==
    IF cs = <<>> THEN <<>>
    ELSE (IF IsRightsId(Head(cs)[1]) THEN <<BytesOf(Head(cs)[1])>> ELSE <<>>)
             \o RightsIdsIn(Tail(cs))

(* The registrations C10 allows for the pairs of cs: one for each pair with *)
(* a rights ID and a value of exactly 32 characters.                        *)
RECURSIVE RegistrationsIn(_)
RegistrationsIn(cs) ==
    IF cs = <<>> THEN <<>>
    ELSE (IF IsRightsId(Head(cs)[1]) /\ Len(Head(cs)[2]) = AccessKeyChars
          THEN << <<BytesOf(Head(cs)[1]), BytesOf(Head(cs)[2])>> >>
          ELSE <<>>)
             \o RegistrationsIn(Tail(cs))

(* The title-key entries that end in a newline, the rights ID each stands   *)
(* for (none when it is not 32 hex characters).                             *)
TitleLines ==
    {TitleGoodA, TitleGoodB, TitleOddId, TitleShortId, TitleNonHexId, TitleBangId}

TitleIdOf(e) ==
    IF e = TitleGoodA THEN <<BytesOf(Rep(Cha, 32))>>
    ELSE IF e = TitleGoodB THEN <<BytesOf(Rep(Chb, 32))>>
    ELSE <<>>

RECURSIVE TitleIdsOf(_)
TitleIdsOf(es) == IF es = <<>> THEN <<>> ELSE TitleIdOf(Head(es)) \o TitleIdsOf(Tail(es))

TitleLineSeqs == UNION {[1..n -> TitleLines] : n \in 0..MaxTitleEntries}

(* C9 as stated, for files of newline-terminated entries with values of 32  *)
(* hex characters: an entry whose rights ID is not exactly 32 hex           *)
(* characters registers nothing, and every entry with a rights ID of 32 hex *)
(* characters, also one behind it, is registered.                           *)
C9_BadRightsIdSkipsPair ==
    Returned =>
        \A es \in TitleLineSeqs : file = Flatten(es) => RightsIdsOf(km) = TitleIdsOf(es)

(* C9 amended: a pair whose rights ID is not exactly 32 hex characters      *)
(* registers nothing. When the ID is made of key characters [A-Za-z0-9_]    *)
(* the scan goes on, and every pair handed to LoadTitleKey with a rights ID *)
(* of 32 hex characters, before or behind it, is registered, in order; when *)
(* it holds any other character (such as "!") ProcessKeyValueFile ends the  *)
(* scan and nothing behind it in the file is registered.                    *)
C9_BadRightsIdRegistersNothing ==
    /\ [](RightsIdsOf(km) = RightsIdsIn(calls))
    /\ [][KeyAbortLogged => km' = km]_vars

C9_Witness ==
    /\ file = TitleShortId \o TitleGoodB
    /\ pc = "done"
    /\ Len(calls) = 2
    /\ RightsIdsOf(km) = <<BytesOf(Rep(Chb, 32))>>

(* C10 as stated: LoadTitleKey registers a pair only when its value is      *)
(* exactly 32 characters long.                                              *)
C10_ValueLengthChecked == km = RegistrationsIn(calls)

(* The buffer characters from index o up to, not including, the first       *)
(* whitespace, newline or NUL, or the end of the buffer.                    *)
RECURSIVE SpanInBuffer(_, _, _)
SpanInBuffer(m, o, n) ==
    IF o >= n \/ Rd(m, o) \in {LF, CR, SP, TAB, NUL} THEN <<>>
    ELSE <<Rd(m, o)>> \o SpanInBuffer(m, o + 1, n)

(* C23: the value string a pass hands to ProcessKeyValue starts at a        *)
(* character that is neither space nor tab and is exactly the buffer        *)
(* characters from there up to the first whitespace, newline, NUL or the   *)
(* end of the buffer: it holds no byte from outside the buffer.             *)
C23_ValueSpan ==
    (pc = "loop" /\ ofs < file_size /\ Pass.res = "pair") =>
        /\ Pass.value < file_size
        /\ Rd(mem, Pass.value) \notin {SP, TAB}
        /\ CStr(Pass.mem, Pass.value) = SpanInBuffer(mem, Pass.value, file_size)

(* C19: delimiter equivalence: a buffer that is the one entry "k<sep>00\n", *)
(* <sep> being "=" or "," with or without spaces and tabs around it, hands  *)
(* exactly the pair (k, 00) to the callback and is read to its end; a key   *)
(* followed by spaces or tabs and then a character that is neither "=" nor  *)
(* "," hands over nothing and ends the scan of the buffer, the well-formed  *)
(* entry behind it included.                                                *)
C19_DelimiterEquivalence ==
    /\ file \in DelimiterFiles =>
           /\ pc # "aborted"
           /\ calls \in {<<>>, << <<<<Chk>>, <<Ch0, Ch0>>>> >>}
           /\ pc = "done" => calls = << <<<<Chk>>, <<Ch0, Ch0>>>> >>
    /\ file \in NoDelimiterFiles =>
           /\ calls = <<>>
           /\ pc \in {"loop", "aborted"}
           /\ pc = "loop" => ofs = 0

C19_Witness ==
    /\ file = <<Chk, SP, TAB, COMMA, TAB, Ch0, Ch0, LF>>
    /\ pc = "done"
    /\ calls = << <<<<Chk>>, <<Ch0, Ch0>>>> >>

----------------------------------------------------------------------------
(* Properties of PresetInternalKeys from end to end (SpecPreset).            *)

(* C14: every run of PresetInternalKeys completes: whatever the key file    *)
(* holds, and whether it opens, reads or is aborted, no pass of the parser  *)
(* ends the process, so that derivation, the master-key export and          *)
(* title-key loading still run.                                             *)
C14_AlwaysCompletes == stage # "killed"

(* The stages of PresetInternalKeys behind the call of DeriveKeys. *)
AfterDerive == {"export", "gamecard", "title", "title_file", "end"}

(* C24: in PresetInternalKeys DeriveKeys runs once, when the parser is      *)
(* through with the key file and before any master key is exported; the     *)
(* key-file callback is not called and no slot of the registry is written   *)
(* after DeriveKeys has returned; what is exported are the master keys of   *)
(* the registry DeriveKeys left; title-key loading, the last stage, writes  *)
(* to the Title-Key Manager only, which nothing else writes to.             *)
C24_LifecycleOrder ==
    [][/\ nderive' <= 1
       /\ nderive' # nderive => (stage = "derive" /\ pc = "idle" /\ spl = <<>>)
       /\ stage' \in AfterDerive => nderive' = 1
       /\ ks' # ks => (nderive = 0 /\ stage \in {"key_file", "derive"})
       /\ nderive = 1 => (ks' = ks /\ (sink = "keys" => calls' = calls))
       /\ spl' # spl =>
              (nderive = 1 /\ spl = <<>> /\ spl' = [gen \in Gens |-> ks.master_keys[gen]])
       /\ km' # km => (stage = "title_file" /\ spl # <<>>)
       /\ stage = "title_file" => (ks' = ks /\ spl' = spl)
       /\ stage = "end" => UNCHANGED vars]_vars

C24_Witness ==
    /\ stage = "end"
    /\ nderive = 1
    /\ ks # ks_pre
    /\ ks_pre # ZeroKeySet
    /\ \E gen \in Gens : ~IsZero(spl[gen]) /\ IsZero(ks_pre.master_keys[gen])
    /\ km # <<>>

(* The key-file entries that give tsec_key a valid value (the lines, and    *)
(* the entry that ends the file without a newline), and the block that      *)
(* value decodes to.                                                        *)
TsecLines == {PresetTsecFirst, PresetTsecUpper}

TsecEntries == TsecLines \cup {PresetTsecUnterminated}

ValueText(e) ==
    IF e[Len(e)] = LF
    THEN SubSeq(e, Len(e) - 2 * AesKeySize, Len(e) - 1)
    ELSE SubSeq(e, Len(e) - 2 * AesKeySize + 1, Len(e))

ValueBlock(e) == BlockOf(DecodeHex(ValueText(e) \o <<NUL>>, 0, AesKeySize))

(* C18: later key wins: when the key file names tsec_key twice, each time   *)
(* with a valid value, then once the file is loaded and before derivation   *)
(* the slot holds the decoding of the second occurrence.                    *)
C18_LaterKeyWins ==
    \A e1 \in TsecLines : \A e2 \in TsecEntries :
        (stage = "derive" /\ file = e1 \o e2) => ks.tsec_key = ValueBlock(e2)

(* C20: for every generation below 6.2.0, whenever keyblob_mac_key_source   *)
(* is set and keyblob_key[gen] is set after DeriveKeys (derived, or         *)
(* supplied by the key file), DeriveKeys leaves keyblob_mac_key[gen] =      *)
(* Decrypt(keyblob_key[gen], keyblob_mac_key_source).                       *)
C20_MacKeyWheneverSourceSet ==
    nderive >= 1 =>
        \A gen \in LegacyGens :
            (~IsZero(ks_pre.keyblob_mac_key_source) /\ ~IsZero(ks.keyblob_keys[gen]))
                => ks.keyblob_mac_keys[gen] =
                       Decrypt(ks.keyblob_keys[gen], ks.keyblob_mac_key_source)

(* C21: whenever S1 derives keyblob_key[1.0.0] (secure_boot_key, tsec_key   *)
(* and keyblob_key_source[1.0.0] set) and per_console_key_source is set,    *)
(* DeriveKeys leaves device_key = Decrypt(keyblob_key[1.0.0],               *)
(* per_console_key_source), whether or not keyblob_mac_key_source is set.   *)
C21_DeviceKeyWheneverSourceSet ==
    nderive >= 1 =>
        ((/\ ~IsZero(ks_pre.secure_boot_key)
          /\ ~IsZero(ks_pre.tsec_key)
          /\ ~IsZero(ks_pre.keyblob_key_sources[KeyGeneration_1_0_0])
          /\ ~IsZero(ks_pre.per_console_key_source)
          /\ ~IsZero(ks.keyblob_keys[KeyGeneration_1_0_0]))
            => ks.device_key =
                   Decrypt(ks.keyblob_keys[KeyGeneration_1_0_0], ks.per_console_key_source))

(* The registry stage S5 (lines 153-161) starts from and the one it leaves, *)
(* in the run of DeriveKeys that led to the current state.                  *)
S5In == DecryptKeyblobs(DeriveKeyblobKeys(ks_pre, KeyGeneration_1_0_0))

S5Out == SetKeyblobFields(S5In, KeyGeneration_1_0_0)

(* C22: for every generation below 6.2.0, S5 sets package1_key[gen] to the  *)
(* span at 0x80 of keyblob[gen] exactly when that span is non-zero and      *)
(* master_kek[gen] to the span at 0x00 exactly when that span is non-zero,  *)
(* each decided on its own; a zero span leaves its slot as it was, and no   *)
(* slot of a generation at or above 6.2.0, and no other field, is written.  *)
C22_IndependentExtraction ==
    nderive >= 1 =>
        \A before \in {S5In} : \A after \in {SetKeyblobFields(before, KeyGeneration_1_0_0)} :
            /\ \A gen \in Gens :
                   /\ after.package1_keys[gen] =
                          IF gen \in LegacyGens /\ ~IsZero(before.keyblobs[gen].pk1)
                          THEN before.keyblobs[gen].pk1
                          ELSE before.package1_keys[gen]
                   /\ after.master_keks[gen] =
                          IF gen \in LegacyGens /\ ~IsZero(before.keyblobs[gen].mkek)
                          THEN before.keyblobs[gen].mkek
                          ELSE before.master_keks[gen]
            /\ \A f \in DOMAIN before \ {"package1_keys", "master_keks"} :
                   after[f] = before[f]
            /\ ks.package1_keys = after.package1_keys

C22_Witness ==
    /\ nderive = 1
    /\ \E gen \in LegacyGens :
           /\ ~IsZero(S5In.keyblobs[gen].pk1)
           /\ IsZero(S5In.keyblobs[gen].mkek)
           /\ ~IsZero(S5In.master_keks[gen])
           /\ S5Out.package1_keys[gen] # S5In.package1_keys[gen]
           /\ S5Out.master_keks[gen] = S5In.master_keks[gen]
    /\ \E gen \in LegacyGens :
           /\ IsZero(S5In.keyblobs[gen].pk1)
           /\ ~IsZero(S5In.keyblobs[gen].mkek)
           /\ S5Out.master_keks[gen] # S5In.master_keks[gen]

(* The DecryptBlock calls of DeriveKeys, each with the key its decryptor is *)
(* built from and the block it reads.                                       *)
RECURSIVE BeforeKeyblobPass(_, _)
BeforeKeyblobPass(k, gen) ==
    IF gen = KeyGeneration_1_0_0 THEN k
    ELSE KeyblobKeyPass(BeforeKeyblobPass(k, gen - 1), gen - 1)

(* Lines 125-138, one pass. *)
KeyblobPassCalls(k, gen) ==
    IF \/ IsZero(k.secure_boot_key)
       \/ IsZero(k.tsec_key)
       \/ IsZero(k.keyblob_key_sources[gen])
    THEN {}
    ELSE {[line |-> 129, key |-> k.tsec_key, src |-> k.keyblob_key_sources[gen]],
          [line |-> 130, key |-> k.secure_boot_key,
                         src |-> Decrypt(k.tsec_key, k.keyblob_key_sources[gen])]}
         \cup (IF IsZero(k.keyblob_mac_key_source) THEN {}
               ELSE {[line |-> 134, key |-> KeyblobKey(k, gen),
                                    src |-> k.keyblob_mac_key_source]}
                    \cup (IF gen = KeyGeneration_1_0_0 /\ ~IsZero(k.per_console_key_source)
                          THEN {[line |-> 137, key |-> KeyblobKey(k, gen),
                                               src |-> k.per_console_key_source]}
                          ELSE {}))

(* Lines 174-177, one pass. *)
MarikoPassCalls(k, gen) ==
    IF IsZero(k.mariko_kek) \/ IsZero(k.mariko_master_kek_sources[gen]) THEN {}
    ELSE {[line |-> 177, key |-> k.mariko_kek, src |-> k.mariko_master_kek_sources[gen]]}

(* Lines 182-185, one pass. *)
MasterKeyPassCalls(k, gen) ==
    IF IsZero(k.master_key_source) \/ IsZero(k.master_keks[gen]) THEN {}
    ELSE {[line |-> 185, key |-> k.master_keks[gen], src |-> k.master_key_source]}

(* The registries the stages of lines 173-178 and 181-186 start from. *)
BeforeMariko(k) ==
    DeriveTsecKeys(
        SetKeyblobFields(
            DecryptKeyblobs(DeriveKeyblobKeys(k, KeyGeneration_1_0_0)),
            KeyGeneration_1_0_0))

BeforeMasterKeys(k) == DeriveMarikoMasterKeks(BeforeMariko(k), KeyGeneration_1_0_0)

DecryptCalls(k) ==
    UNION {KeyblobPassCalls(BeforeKeyblobPass(k, gen), gen) : gen \in LegacyGens}
    \cup UNION {MarikoPassCalls(BeforeMariko(k), gen) : gen \in Gens}
    \cup UNION {MasterKeyPassCalls(BeforeMasterKeys(k), gen) : gen \in Gens}

(* C25: no DecryptBlock call of DeriveKeys has the all-zero block as its    *)
(* key, keyblob_key[gen] as the key of lines 134 and 137 included, and none *)
(* reads an all-zero seed (line 130 reads what line 129 wrote, which no     *)
(* statement of the source tests; it is left out here).                     *)
C25_ZeroSentinelGuard ==
    nderive >= 1 =>
        \A c \in DecryptCalls(ks_pre) :
            ~IsZero(c.key) /\ (c.line # 130 => ~IsZero(c.src))

(* The fields of the registry DeriveKeys has a statement writing to. *)
WrittenFields ==
    {"keyblob_keys", "keyblob_mac_keys", "package1_keys", "device_key",
     "master_keks", "master_keys"}

(* C26: DeriveKeys changes no field but keyblob_keys, keyblob_mac_keys,     *)
(* package1_keys, device_key, master_keks and master_keys, and of the first *)
(* three no slot of a generation at or above 6.2.0: the keyblobs, the tsec  *)
(* root keys, package1_mac_kek and every root and seed slot are after       *)
(* DeriveKeys as they were before it.                                       *)
C26_DerivationFrame ==
    nderive >= 1 =>
        /\ \A f \in DOMAIN ks \ WrittenFields : ks[f] = ks_pre[f]
        /\ \A gen \in Gens \ LegacyGens :
               /\ ks.keyblob_keys[gen] = ks_pre.keyblob_keys[gen]
               /\ ks.keyblob_mac_keys[gen] = ks_pre.keyblob_mac_keys[gen]
               /\ ks.package1_keys[gen] = ks_pre.package1_keys[gen]

(* The guards of lines 143-145 all pass, and DeriveKeys has written a slot. *)
C26_Witness ==
    /\ nderive = 1
    /\ \E g \in Gens : ~IsZero(ks.keyblob_keys[g])
    /\ \E g \in Gens : ~IsZero(ks.keyblob_mac_keys[g])
    /\ \E g \in Gens : ~IsZero(ks.encrypted_keyblobs[g])
    /\ ks # ks_pre

(* The guards under which the writing statements of DeriveKeys are reached *)
(* for generation gen, k the registry DeriveKeys starts from.               *)
KeyblobKeyWritten(k, gen) ==
    /\ gen < KeyGeneration_6_2_0
    /\ ~IsZero(k.secure_boot_key)
    /\ ~IsZero(k.tsec_key)
    /\ ~IsZero(k.keyblob_key_sources[gen])

KeyblobMacKeyWritten(k, gen) ==
    KeyblobKeyWritten(k, gen) /\ ~IsZero(k.keyblob_mac_key_source)

Package1KeyWritten(k, gen) ==
    gen < KeyGeneration_6_2_0 /\ ~IsZero(k.keyblobs[gen].pk1)

MasterKekFromKeyblob(k, gen) ==
    gen < KeyGeneration_6_2_0 /\ ~IsZero(k.keyblobs[gen].mkek)

MasterKekFromMariko(k, gen) ==
    ~IsZero(k.mariko_kek) /\ ~IsZero(k.mariko_master_kek_sources[gen])

----------------------------------------------------------------------------
(* Properties of DetermineXciSubStorages (SpecXci).                         *)
LayoutWithKeyArea ==
    /\ xci.storage.size >= CardInitialDataRegionSize
    /\ xci.storage.read_ok
    /\ xci.storage.magic = CardHeaderMagic
    /\ xci.key_area = SubStorage(0, CardInitialDataRegionSize)
    /\ xci.body = SubStorage(CardInitialDataRegionSize,
                             xci.storage.size - CardInitialDataRegionSize)

LayoutWithoutKeyArea ==
    /\ xci.key_area = Null
    /\ xci.body = SubStorage(0, xci.storage.size)

(* C28: whenever DetermineXciSubStorages has returned success, exactly one  *)
(* of two layouts holds: the storage is at least 0x1000 bytes, the card     *)
(* header read at 0x1000 carries the card magic, the key area is            *)
(* [0, 0x1000) and the body [0x1000, size); or the key area is null and the *)
(* body is [0, size). In both, key area and body share no byte and together *)
(* hold every byte of the storage.                                          *)
C28_XciLayout ==
    xci.result = "success" =>
        /\ LayoutWithKeyArea \/ LayoutWithoutKeyArea
        /\ ~(LayoutWithKeyArea /\ LayoutWithoutKeyArea)
        /\ Bytes(xci.key_area) \cap Bytes(xci.body) = {}
        /\ Bytes(xci.key_area) \cup Bytes(xci.body) = 0..(xci.storage.size - 1)

(* The layout with a key area, the body not empty, its initial data read. *)
C28_Witness ==
    /\ xci.pc = "initial"
    /\ xci.result = "success"
    /\ LayoutWithKeyArea
    /\ xci.body.size > CardHeaderWithSignatureSize

----------------------------------------------------------------------------
(* Properties of the key-name dispatch (SpecDispatch).                      *)
ArrayFields == {ArrayOf[kn] : kn \in DOMAIN ArrayOf}

ScalarFields == DOMAIN ZeroKeySet \ (ArrayFields \cup {"key_area_keys"})

(* The slots in which the registries k1 and k2 differ. *)
Changed(k1, k2) ==
    {<<f>> : f \in {g \in ScalarFields : k1[g] # k2[g]}}
    \cup {p \in ArrayFields \X (0..(MarikoAesClassKeys - 1)) :
              p[2] \in DOMAIN k1[p[1]] /\ k1[p[1]][p[2]] # k2[p[1]][p[2]]}
    \cup {p \in {"key_area_keys"} \X Gens \X (0..2) :
              k1.key_area_keys[p[2]][p[3]] # k2.key_area_keys[p[2]][p[3]]}

LastCall == calls'[Len(calls')]

(* The number a two-character suffix stands for, read as hex. *)
HexValue(sfx) == HexToI(sfx[1]) * 16 + HexToI(sfx[2])

(* C15: one call of LoadExternalKey writes at most one slot of the          *)
(* registry, and none when the key matches no name (it only warns); the     *)
(* calls that follow are made as usual.                                     *)
C15_DispatchFrame ==
    [][calls' # calls =>
          /\ Cardinality(Changed(ks, ks')) <= 1
          /\ (~Matches(LastCall[1]) => ks' = ks /\ log' = Append(log, "unmatched"))
          /\ (Matches(LastCall[1]) => Cardinality(Changed(ks, ks')) = 1 /\ log' = log)]_vars

C15_Witness ==
    /\ Len(calls) = 2
    /\ calls[1][1] = <<"no_such_key">>
    /\ calls[2][1] = <<"tsec_key">>
    /\ log = <<"unmatched">>
    /\ Changed(ZeroKeySet, ks) = {<<"tsec_key">>}

SuffixedCall == calls' # calls /\ Len(LastCall[1]) = 2

(* The slot the key kn_sfx names when sfx is read as a hex number. *)
SlotNamed(kn, sfx) ==
    IF kn \in DOMAIN ArrayOf THEN <<ArrayOf[kn], HexValue(sfx)>>
    ELSE <<"key_area_keys", HexValue(sfx), KeyAreaPurpose[kn]>>

SameShape(k1, k2) == \A f \in ArrayFields : DOMAIN k1[f] = DOMAIN k2[f]

(* C16: a key <family>_XX that LoadExternalKey accepts is decoded into the  *)
(* slot <family>[XX], XX being the value of its two-digit lower-case hex    *)
(* suffix, and into no other slot; the index lies inside the family's array. *)
C16_SuffixIndexesSlot ==
    [][(SuffixedCall /\ ks' # ks) =>
          /\ Changed(ks, ks') = {SlotNamed(LastCall[1][1], LastCall[1][2])}
          /\ LastCall[1][2] = Fmt02x(HexValue(LastCall[1][2]))
          /\ SameShape(ks, ks')]_vars

C16_Witness ==
    /\ Len(calls) = 2
    /\ calls[1][1] = <<"mariko_aes_class_key", <<Ch0, Cha>>>>
    /\ calls[2][1] = <<"key_area_key_ocean", <<Ch0, Ch0>>>>
    /\ ks.mariko_aes_class_keys[10] = 1
    /\ ks.key_area_keys[0][1] = 2

PreFamilies ==
    {"keyblob_key_source", "keyblob_key", "keyblob_mac_key", "encrypted_keyblob", "keyblob"}

RelativeFamilies == {"tsec_auth_signature", "tsec_root_key"}

AbsoluteFamilies == {"master_kek_source", "package1_mac_key"}

(* C17 as stated, for the families dispatched for 6.2.0 and later: the key  *)
(* with suffix 00 is accepted (it names generation 6.2.0).                  *)
C17_AllRelativeTo620 ==
    (/\ Len(calls) = 1
     /\ Len(calls[1][1]) = 2
     /\ calls[1][1][1] \in RelativeFamilies \cup AbsoluteFamilies
     /\ calls[1][1][2] = Fmt02x(0))
        => ks # ZeroKeySet /\ log = <<>>

(* C17 amended: a family dispatched only before 6.2.0 accepts the suffixes  *)
(* from 0 up to, not including, the 6.2.0 index. tsec_auth_signature and    *)
(* tsec_root_key take the suffix relative to 6.2.0: suffix XX is accepted   *)
(* when 6.2.0 + XX is a generation, and is slot XX, so 00 names generation  *)
(* 6.2.0. master_kek_source and package1_mac_key take the generation itself *)
(* as suffix: XX is accepted from the 6.2.0 index up to the last            *)
(* generation, and 00 is not accepted.                                      *)
C17_SuffixBases ==
    [][SuffixedCall =>
          LET kn == LastCall[1][1]
              n  == HexValue(LastCall[1][2])
          IN  /\ kn \in PreFamilies =>
                     (ks' # ks <=> n < KeyGeneration_6_2_0)
              /\ kn \in RelativeFamilies =>
                     /\ ks' # ks <=> KeyGeneration_6_2_0 + n < KeyGeneration_Max
                     /\ ks' # ks => Changed(ks, ks') = {<<ArrayOf[kn], n>>}
              /\ kn \in AbsoluteFamilies =>
                     /\ ks' # ks <=> (KeyGeneration_6_2_0 <= n /\ n < KeyGeneration_Max)
                     /\ ks' # ks => Changed(ks, ks') = {<<ArrayOf[kn], n>>}]_vars

C17_Witness ==
    /\ Len(calls) = 2
    /\ calls[1][1] = <<"tsec_auth_signature", Fmt02x(0)>>
    /\ calls[2][1] = <<"master_kek_source", Fmt02x(KeyGeneration_6_2_0)>>
    /\ ks.tsec_auth_signatures[0] = 1
    /\ ks.master_kek_sources[KeyGeneration_6_2_0] = 2

----------------------------------------------------------------------------
(* Properties of DecodeHex (SpecHex).                                       *)
HexString == CStr(hx.m, hx.src)

(* C11: for every byte array b of the size asked for, DecodeHex of the      *)
(* 2N-character encoding of b, in lower or upper case, yields b; the string *)
(* of 2N characters "0" (b all zero) yields the all-zero array.             *)
C11_HexRoundTrip ==
    hx.pc = "done" =>
        \A b \in ByteArrays(hx.size) : \A upper \in BOOLEAN :
            HexString = EncodeHex(b, upper) => hx.dst = b /\ ~hx.warn

C11_Witness ==
    /\ hx.pc = "done"
    /\ hx.size = 2
    /\ HexString = <<ChA, ChB, Ch9, ChF>>
    /\ hx.dst = <<171, 159>>
    /\ hx.dst0 = <<238, 238>>

(* What the pairs that fit in str decode to: byte i from the characters     *)
(* 2i-1 and 2i of str when both are there, else rest[i].                    *)
DecodeFit(str, size, rest) ==
    [i \in 1..size |->
        IF 2 * i <= Len(str) THEN HexToI(str[2 * i - 1]) * 16 + HexToI(str[2 * i])
        ELSE rest[i]]

(* C12 as stated: the decoded bytes come from the characters of src alone.  *)
(* The bytes of dst past the pairs that fit are either left as they were or *)
(* zero; none of them is made from what follows the terminator of src.      *)
C12_NoReadPastTerminator ==
    hx.pc = "done" =>
        \/ hx.dst = DecodeFit(HexString, hx.size, hx.dst0)
        \/ hx.dst = DecodeFit(HexString, hx.size, [i \in 1..hx.size |-> 0])

====
